---- MODULE Spec2Model ----
(***************************************************************************)
(* A model of the orchestration core of marketing_posts: the configuration *)
(* store (core/config_manager.py), the crew registry (core/crew_factory.py)*)
(* the crew catalogs (crews/*.py, crew.py) and the result formatter and    *)
(* saver (core/result_saver.py).                                           *)
(*                                                                         *)
(* Strings that the code joins or splits are modelled structurally:        *)
(*  - a configuration type or file name is the sequence of its             *)
(*    underscore-free segments, so that f"{a}_{b}" is a \o b;              *)
(*  - a text handled by clean_text is the sequence of its code points.     *)
(***************************************************************************)
EXTENDS Integers, Sequences, FiniteSets, TLC

VARIABLES
    \* ---- ConfigManager (core/config_manager.py)
    files,       \* the directory base_path: file name -> content
    cache,       \* ConfigManager._cache: cache key -> document
    call,        \* the last call made on the store
    loads,       \* probe: how often load_config(type, name) was called
    ret,         \* what that call returned or raised
    reads,       \* probe: how often load_config(type, name) opened its source
    validated,   \* probe: how often load_config(type, name) ran a validator
    clears,      \* probe: number of clear_cache calls
    \* ---- CrewFactory (core/crew_factory.py)
    registry,    \* CrewFactory._crew_registry, in insertion order
    regLog,      \* probe: the register_crew_type calls made so far
    env,         \* whether DEEPSEEK_API_KEY is set in the environment
    fcall,       \* the last call made on the factory
    fret,        \* what that call returned or raised
    \* ---- ResultFormatter (core/result_saver.py)
    body,        \* the text a task result was built from
    mode,        \* how that text is wrapped in the result's raw field
    task_result, \* the task result handed to format_task_result
    stage,       \* how far the formatting pipeline has run
    formatted,   \* format_task_result(task_result)
    cleaned,     \* clean_text(formatted)
    recleaned,   \* clean_text(cleaned)
    \* ---- ResultSaver (core/result_saver.py)
    dirs,        \* the directories that exist
    clock,       \* the current time, in seconds
    lastWritten, \* the file most recently written and its content
    scall,       \* the last call made on the saver
    sret,        \* what that call returned or raised
    created,     \* probe: the latest runs of create_results_directory
    saves,       \* probe: number of save_marketing_results calls
    \* ---- the crews (crews/standard_crew.py, crews/gaming_crew.py, crew.py)
    cfiles,      \* the configuration directory of a crew: name -> content
    ccache,      \* the cache of the crew's ConfigManager
    ccall,       \* the last call made on a crew
    cret,        \* what that call returned or raised
    \* ---- BaseCrew (core/base_crew.py)
    pipe,        \* a crew object: class, configuration, construction steps
    kickoffs,    \* probe: the engine invocations of the last execute
    pret,        \* what the last execute returned or raised
    graphs,      \* what the create_crew calls made on the object returned
    \* ---- run (main.py)
    runner,      \* one call of run: its arguments, position and outcome
    \* ---- CrewBuilder (core/crew_factory.py)
    builder      \* a builder: the objects it made, its _config, its calls

storeVars == <<files, cache, call, ret, loads, reads, validated, clears>>

factoryVars == <<registry, regLog, env, fcall, fret>>

formatVars ==
    <<body, mode, task_result, stage, formatted, cleaned, recleaned>>

saverVars == <<dirs, clock, lastWritten, scall, sret, created, saves>>

crewVars == <<cfiles, ccache, ccall, cret>>

pipeVars == <<pipe, kickoffs, pret, graphs>>

runVars == <<runner>>

builderVars == <<builder>>

vars ==
    <<storeVars, factoryVars, formatVars, saverVars,
      crewVars, pipeVars, runVars, builderVars>>

\* what the operations of one component leave alone
notStore ==
    <<factoryVars, formatVars, saverVars, crewVars, pipeVars, runVars,
      builderVars>>

notFactory ==
    <<storeVars, formatVars, saverVars, crewVars, pipeVars, runVars,
      builderVars>>

notFormat ==
    <<storeVars, factoryVars, saverVars, crewVars, pipeVars, runVars,
      builderVars>>

notSaver ==
    <<storeVars, factoryVars, formatVars, crewVars, pipeVars, runVars,
      builderVars>>

notCrew ==
    <<storeVars, factoryVars, formatVars, saverVars, pipeVars, runVars,
      builderVars>>

\* a crew object reads the environment and its configuration documents
notPipe ==
    <<storeVars, factoryVars, formatVars, saverVars, cfiles, ccall, cret,
      runVars, builderVars>>

\* run creates directories and reads the environment
notRun ==
    <<storeVars, factoryVars, formatVars, crewVars, pipeVars, clock,
      lastWritten, scall, sret, created, saves, builderVars>>

notBuilder ==
    <<storeVars, factoryVars, formatVars, saverVars, crewVars, pipeVars,
      runVars>>

(***************************************************************************)
(* Bounds of the model.                                                    *)
(***************************************************************************)
MaxEntries == 2    \* entries of a configuration document
MaxLoads   == 3    \* load_config calls in one behaviour
MaxClears  == 1    \* clear_cache calls in one behaviour
MaxRegs    == 3    \* register_crew_type calls in one behaviour
MaxPieces  == 3    \* pieces of the text of a task result
MaxResults == 2    \* task results in one crew result
MaxClock   == 2    \* seconds on the clock
MaxExecutes == 2   \* execute calls on one crew object
MaxCreates == 2   \* create_crew calls on one crew object
MaxBuilderCalls == 3   \* calls made on one CrewBuilder
MaxSaves   == 1    \* save_marketing_results calls in one behaviour

(***************************************************************************)
(* Generic helpers.                                                        *)
(***************************************************************************)
Range(s) == {s[i] : i \in 1..Len(s)}

SeqsUpTo(S, n) == UNION {[1..k -> S] : k \in 0..n}

(***************************************************************************)
(* Configuration documents.  A parsed document is either not a mapping, or *)
(* an insertion-ordered mapping from entry names to values; a value is     *)
(* either not a mapping or a mapping with a set of field names.            *)
(***************************************************************************)
AgentFields == <<"role", "goal", "backstory">>

TaskFields == <<"description", "expected_output">>

EntryNames == {"e1", "e2"}

\* the fields of an entry: the agent fields with none, one or all of them
\* lacking, or the task fields
FieldSets ==
    {F \in SUBSET Range(AgentFields) : Cardinality(F) # 1}
    \cup {Range(TaskFields)}

Entries ==
    {[name |-> n, isdict |-> FALSE, fields |-> {}] : n \in EntryNames}
    \cup {[name |-> n, isdict |-> TRUE, fields |-> F] :
            n \in EntryNames, F \in FieldSets}

DistinctNames(es) ==
    \A i, j \in 1..Len(es) : es[i].name = es[j].name => i = j

Documents ==
    {[mapping |-> FALSE, entries |-> <<>>]}
    \cup {[mapping |-> TRUE, entries |-> es] :
            es \in {s \in SeqsUpTo(Entries, MaxEntries) : DistinctNames(s)}}

NoDocument == [mapping |-> FALSE, entries |-> <<>>]

\* What a file of base_path can hold: nothing (the path does not exist),
\* text that is not YAML, or the text of a document.
Missing == [state |-> "missing", doc |-> NoDocument]

Malformed == [state |-> "malformed", doc |-> NoDocument]

FileOf(d) == [state |-> "yaml", doc |-> d]

CompleteAgent(n) ==
    [name |-> n, isdict |-> TRUE, fields |-> Range(AgentFields)]

(***************************************************************************)
(* Names.  "agents_gaming.yaml" is <<"agents", "gaming.yaml">>.            *)
(***************************************************************************)
AgentsType == <<"agents">>

TasksType == <<"tasks">>

ConfigTypes == {AgentsType, TasksType, <<"agents", "agents">>}

ConfigNames == {<<"agents", "gaming.yaml">>, <<"gaming.yaml">>}

Pairs == ConfigTypes \X ConfigNames

\* The second file is drawn from a few representative contents.
FewContents ==
    {Missing, Malformed,
     FileOf([mapping |-> TRUE, entries |-> <<CompleteAgent("e1")>>]),
     FileOf([mapping |-> TRUE,
             entries |-> <<[name |-> "e2", isdict |-> TRUE,
                            fields |-> {"role", "goal"}]>>])}

AllContents == {Missing, Malformed} \cup {FileOf(d) : d \in Documents}

(***************************************************************************)
(* Errors.  A ConfigValidationError carries message, config_file, field.   *)
(* A message is the sequence of the pieces its f-string is built from; the *)
(* field "entry.name" is <<entry, name>> and None is <<>>.                 *)
(***************************************************************************)
NoError == [kind |-> "none", message |-> <<>>, config_file |-> <<>>,
            field |-> <<>>]

ConfigValidationError(message, config_file, field) ==
    [kind |-> "ConfigValidationError", message |-> message,
     config_file |-> config_file, field |-> field]

FileNotFoundError(path) ==
    [kind |-> "FileNotFoundError", message |-> <<"not_found">> \o path,
     config_file |-> <<>>, field |-> <<>>]

\* str(e) of a dataclass exception: the text of its argument tuple.
StrOfError(e) == e.message \o e.config_file \o e.field

(***************************************************************************)
(* The validators.                                                         *)
(***************************************************************************)
\* a validator that goes through the required fields from the last one
RECURSIVE LastMissing(_, _, _)
LastMissing(required, fields, i) ==
    IF i > Len(required) THEN ""
    ELSE LET j == Len(required) + 1 - i IN
         IF required[j] \notin fields THEN required[j]
         ELSE LastMissing(required, fields, i + 1)

RECURSIVE FirstMissing(_, _, _)
FirstMissing(required, fields, i) ==
    IF i > Len(required) THEN ""
    ELSE IF required[i] \notin fields THEN required[i]
    ELSE FirstMissing(required, fields, i + 1)

RECURSIVE ValidateEntries(_, _, _, _, _)
ValidateEntries(required, file, label, es, i) ==
    IF i > Len(es) THEN NoError
    ELSE IF ~es[i].isdict
    THEN ConfigValidationError(<<label, "entry_not_dict", es[i].name>>,
                               <<file>>, <<es[i].name>>)
    ELSE LET f == FirstMissing(required, es[i].fields, 1) IN
         IF f # ""
         THEN ConfigValidationError(
                  <<label, "missing_field", es[i].name, f>>,
                  <<file>>, <<es[i].name, f>>)
         ELSE ValidateEntries(required, file, label, es, i + 1)

ValidateWith(required, file, label, config) ==
    IF ~config.mapping
    THEN ConfigValidationError(<<label, "not_dict">>, <<file>>, <<>>)
    ELSE ValidateEntries(required, file, label, config.entries, 1)

AgentsConfigValidator(config) ==
    ValidateWith(AgentFields, "agents.yaml", "agent", config)

TasksConfigValidator(config) ==
    ValidateWith(TaskFields, "tasks.yaml", "task", config)

\* ConfigManager._validators
HasValidator(config_type) == config_type \in {AgentsType, TasksType}

RunValidator(config_type, config) ==
    IF config_type = AgentsType THEN AgentsConfigValidator(config)
    ELSE TasksConfigValidator(config)

(***************************************************************************)
(* ConfigManager.load_config / clear_cache.                                *)
(***************************************************************************)
CacheKey(config_type, config_name) == config_type \o config_name

Returned(d) == [kind |-> "ok", value |-> d, error |-> NoError]

Raised(e) == [kind |-> "raise", value |-> NoDocument, error |-> e]

\* The outcome of the try block of load_config on a source that exists:
\* the exception handlers turn everything raised inside into a new
\* ConfigValidationError built from the file name alone.
LoadOutcome(config_type, config_name, content) ==
    IF content.state = "malformed"
    THEN Raised(ConfigValidationError(
                    <<"invalid_yaml">> \o config_name, config_name, <<>>))
    ELSE LET e == IF HasValidator(config_type)
                  THEN RunValidator(config_type, content.doc)
                  ELSE NoError IN
         IF e.kind # "none"
         THEN Raised(ConfigValidationError(
                    <<"load_error">> \o config_name \o StrOfError(e),
                    config_name, <<>>))
         ELSE Returned(content.doc)

\* cache_key in self._cache
IsCachedByName(config_type, config_name) == config_name \in DOMAIN cache

IsCached(config_type, config_name) ==
    CacheKey(config_type, config_name) \in DOMAIN cache

CacheEvenIfInvalid(key, content, outcome) ==
    IF content.state = "yaml"
    THEN [k \in DOMAIN cache \cup {key} |->
             IF k = key THEN content.doc ELSE cache[k]]
    ELSE cache

\* a cache that holds the latest document only
CacheOnlyLatest(key, content, outcome) ==
    IF outcome.kind = "ok"
    THEN [k \in {key} |-> outcome.value]
    ELSE cache

\* self._cache[cache_key] = config is reached only when nothing was raised
CacheAfterLoad(key, content, outcome) ==
    IF outcome.kind = "ok"
    THEN [k \in DOMAIN cache \cup {key} |->
             IF k = key THEN outcome.value ELSE cache[k]]
    ELSE cache

RECURSIVE SumOver(_, _)
SumOver(f, S) ==
    IF S = {} THEN 0
    ELSE LET x == CHOOSE y \in S : TRUE IN f[x] + SumOver(f, S \ {x})

load_config(config_type, config_name) ==
    LET key == CacheKey(config_type, config_name)
        p == <<config_type, config_name>>
        content == files[config_name] IN
    /\ SumOver(loads, Pairs) < MaxLoads
    /\ loads' = [loads EXCEPT ![p] = @ + 1]
    /\ call' = [op |-> "load_config", type |-> config_type,
                name |-> config_name]
    /\ IF IsCached(config_type, config_name)
       THEN /\ ret' = Returned(cache[key])
            /\ UNCHANGED <<cache, reads, validated>>
       ELSE IF content.state = "missing"
       THEN /\ ret' = Raised(FileNotFoundError(config_name))
            /\ UNCHANGED <<cache, reads, validated>>
       ELSE LET outcome == LoadOutcome(config_type, config_name, content) IN
            /\ ret' = outcome
            /\ reads' = [reads EXCEPT ![p] = @ + 1]
            /\ validated' =
                 IF content.state = "yaml" /\ HasValidator(config_type)
                 THEN [validated EXCEPT ![p] = @ + 1] ELSE validated
            /\ cache' = CacheAfterLoad(key, content, outcome)
    /\ UNCHANGED <<files, clears>>

clear_cache ==
    /\ clears < MaxClears
    /\ cache' = <<>>
    /\ clears' = clears + 1
    /\ call' = [op |-> "clear_cache", type |-> <<>>, name |-> <<>>]
    /\ ret' = Returned(NoDocument)
    /\ UNCHANGED <<files, loads, reads, validated>>

(***************************************************************************)
(* CrewConfig and the construction of a crew (core/base_crew.py).          *)
(***************************************************************************)
Providers == {"deepseek", "DeepSeek", "openai"}

\* provider.lower()
Lower(provider) == IF provider = "DeepSeek" THEN "deepseek" ELSE provider

CrewConfig(provider, agents, tasks) ==
    [llm_provider |-> provider, llm_model |-> "None",
     agents_config |-> agents, tasks_config |-> tasks,
     verbose |-> TRUE, memory |-> FALSE]

DefaultConfig == CrewConfig("deepseek", "config/agents.yaml",
                            "config/tasks.yaml")

\* the default configuration, and configurations that differ from it in
\* the provider or in a document path
CrewConfigs ==
    {CrewConfig(pr, "config/agents.yaml", "config/tasks.yaml") :
        pr \in Providers}
    \cup {CrewConfig("deepseek", "config/agents_gaming.yaml",
                     "config/tasks_gaming.yaml"),
          CrewConfig("deepseek", "", "config/tasks.yaml"),
          CrewConfig("DeepSeek", "config/agents_gaming.yaml", "")}

CrewClasses == {"BaseCrew", "StandardCrew", "GamingCrew"}

RegisteredTypes == {"standard", "gaming"}

CrewTypes == RegisteredTypes \cup {"custom"}

NoCrew == [cls |-> "none", config |-> DefaultConfig]

Built(cls, config, steps) ==
    [ok |-> TRUE, error |-> "none", steps |-> steps,
     crew |-> [cls |-> cls, config |-> config]]

Failed(error, steps) ==
    [ok |-> FALSE, error |-> error, steps |-> steps, crew |-> NoCrew]

\* LLMConfig.get_default_llm followed by DeepSeekLLM.__init__
ResolveLLM(config) ==
    IF Lower(config.llm_provider) # "deepseek" THEN "unsupported_provider"
    ELSE IF ~env THEN "missing_api_key"
    ELSE "none"

\* the _validate_config hook of each class
ValidateConfigHook(cls, config) ==
    IF cls \in {"StandardCrew", "GamingCrew"}
       /\ (config.agents_config = "" \/ config.tasks_config = "")
    THEN "missing_config_paths"
    ELSE "none"

\* BaseCrew.__init__: a failing step raises, and nothing after it runs
Construct(cls, config) ==
    IF ResolveLLM(config) # "none"
    THEN Failed(ResolveLLM(config), <<"config", "llm">>)
    ELSE IF ValidateConfigHook(cls, config) # "none"
    THEN Failed(ValidateConfigHook(cls, config),
                <<"config", "llm", "validate_config">>)
    ELSE Built(cls, config,
               <<"config", "llm", "validate_config", "initialize_crew">>)

(***************************************************************************)
(* CrewFactory.  The registry is a dict: a sequence of (type, class) in    *)
(* insertion order, with one position for each key.                        *)
(***************************************************************************)
Keys(reg) == [i \in 1..Len(reg) |-> reg[i].type]

Registered(reg, crew_type) == crew_type \in Range(Keys(reg))

ClassFirstRegistered(reg, crew_type) ==
    regLog[CHOOSE i \in 1..Len(regLog) :
              /\ regLog[i].type = crew_type
              /\ \A j \in 1..(i - 1) : regLog[j].type # crew_type].cls

\* self._crew_registry[crew_type]
ClassOf(reg, crew_type) ==
    reg[CHOOSE i \in 1..Len(reg) : reg[i].type = crew_type].cls

RegisterMovingToEnd(reg, crew_type, crew_class) ==
    SelectSeq(reg, LAMBDA r : r.type # crew_type)
        \o <<[type |-> crew_type, cls |-> crew_class]>>

\* self._crew_registry[crew_type] = crew_class
RegistryAfterRegister(reg, crew_type, crew_class) ==
    IF Registered(reg, crew_type)
    THEN [i \in 1..Len(reg) |->
            IF reg[i].type = crew_type
            THEN [type |-> crew_type, cls |-> crew_class] ELSE reg[i]]
    ELSE Append(reg, [type |-> crew_type, cls |-> crew_class])

NoFactoryError == [kind |-> "none", text |-> "none", requested |-> "none",
                   available |-> <<>>]

FactoryReturned(b, crew) ==
    [kind |-> "ok", bool |-> b, crew |-> crew, error |-> NoFactoryError]

FactoryRaised(e) ==
    [kind |-> "raise", bool |-> FALSE, crew |-> NoCrew, error |-> e]

UnknownCrewType(crew_type, available) ==
    [kind |-> "ValueError", text |-> "unknown_crew_type",
     requested |-> crew_type, available |-> available]

ConstructorError(text) ==
    [kind |-> "ValueError", text |-> text, requested |-> "none",
     available |-> <<>>]

CreateOutcome(crew_type, config) ==
    IF ~Registered(registry, crew_type)
    THEN FactoryRaised(UnknownCrewType(crew_type, Keys(registry)))
    ELSE LET c == Construct(ClassOf(registry, crew_type), config) IN
         IF c.ok THEN FactoryReturned(TRUE, c.crew)
         ELSE FactoryRaised(ConstructorError(c.error))

ValidateWithoutCatch(crew_type, config) ==
    IF ~Registered(registry, crew_type) THEN FactoryReturned(FALSE, NoCrew)
    ELSE LET c == Construct(ClassOf(registry, crew_type), config) IN
         IF c.ok THEN FactoryReturned(TRUE, NoCrew)
         ELSE FactoryRaised(ConstructorError(c.error))

ValidateOutcome(crew_type, config) ==
    IF ~Registered(registry, crew_type) THEN FactoryReturned(FALSE, NoCrew)
    ELSE LET c == Construct(ClassOf(registry, crew_type), config) IN
         IF c.ok THEN FactoryReturned(TRUE, NoCrew)
         ELSE FactoryReturned(FALSE, NoCrew)

\* probe: how often create_crew and validate_crew_config call crew_class
ConstructorCalls(crew_type) == IF Registered(registry, crew_type) THEN 1 ELSE 0

register_crew_type(crew_type, crew_class) ==
    /\ Len(regLog) < MaxRegs
    /\ registry' = RegistryAfterRegister(registry, crew_type, crew_class)
    /\ regLog' = Append(regLog, [type |-> crew_type, cls |-> crew_class])
    /\ fcall' = [op |-> "register_crew_type", type |-> crew_type,
                 config |-> DefaultConfig, constructed |-> 0]
    /\ fret' = FactoryReturned(FALSE, NoCrew)
    /\ UNCHANGED env

create_crew(crew_type, config) ==
    /\ fcall' = [op |-> "create_crew", type |-> crew_type, config |-> config,
                 constructed |-> ConstructorCalls(crew_type)]
    /\ fret' = CreateOutcome(crew_type, config)
    /\ UNCHANGED <<registry, regLog, env>>

validate_crew_config(crew_type, config) ==
    /\ fcall' = [op |-> "validate_crew_config", type |-> crew_type,
                 config |-> config,
                 constructed |-> ConstructorCalls(crew_type)]
    /\ fret' = ValidateOutcome(crew_type, config)
    /\ UNCHANGED <<registry, regLog, env>>

FactoryIdle ==
    /\ registry = <<>>
    /\ regLog = <<>>
    /\ env = TRUE
    /\ fcall = [op |-> "init", type |-> "none", config |-> DefaultConfig,
                constructed |-> 0]
    /\ fret = FactoryReturned(FALSE, NoCrew)

FactoryInit ==
    /\ registry = <<>>
    /\ regLog = <<>>
    /\ env \in BOOLEAN
    /\ fcall = [op |-> "init", type |-> "none", config |-> DefaultConfig,
                constructed |-> 0]
    /\ fret = FactoryReturned(FALSE, NoCrew)

RegisterCrewType ==
    /\ \E t \in RegisteredTypes, c \in CrewClasses :
          register_crew_type(t, c)
    /\ UNCHANGED notFactory

CreateCrew ==
    /\ \E t \in CrewTypes, c \in CrewConfigs : create_crew(t, c)
    /\ UNCHANGED notFactory

ValidateCrewConfig ==
    /\ \E t \in CrewTypes, c \in CrewConfigs : validate_crew_config(t, c)
    /\ UNCHANGED notFactory

(***************************************************************************)
(* Texts.  A text is the sequence of its code points.                      *)
(***************************************************************************)
LF == 10            \* newline

DQ == 34            \* "

SQ == 39            \* '

LP == 40            \* (

RP == 41            \* )

BS == 92            \* backslash

LetterN == 110      \* n

LetterX == 120      \* x

LetterZ == 122      \* z

Zhe == 1046         \* a Cyrillic letter: not encodable in latin-1

\* "('raw', '"
TuplePrefix == <<LP, SQ, 114, 97, 119, SQ, 44, 32, SQ>>

\* "')"
TupleSuffix == <<SQ, RP>>

MatchAt(text, pat, i) ==
    /\ i + Len(pat) <= Len(text)
    /\ \A k \in 1..Len(pat) : text[i + k] = pat[k]

\* text.startswith(pat), text.endswith(pat)
StartsWith(text, pat) == MatchAt(text, pat, 0)

EndsWith(text, pat) ==
    Len(pat) <= Len(text) /\ MatchAt(text, pat, Len(text) - Len(pat))

\* text.find(pat), text.rfind(pat): 0-based, -1 when absent
Find(text, pat) ==
    LET hits == {i \in 0..Len(text) : MatchAt(text, pat, i)} IN
    IF hits = {} THEN -1 ELSE CHOOSE i \in hits : \A j \in hits : i <= j

RFind(text, pat) ==
    LET hits == {i \in 0..Len(text) : MatchAt(text, pat, i)} IN
    IF hits = {} THEN -1 ELSE CHOOSE i \in hits : \A j \in hits : i >= j

\* text[start:end] for 0 <= start <= end <= len(text)
Slice(text, start, end) == SubSeq(text, start + 1, end)

\* text.replace(pat, rep): the non-overlapping matches, left to right
RECURSIVE ReplaceFrom(_, _, _, _)
ReplaceFrom(text, pat, rep, i) ==
    IF i >= Len(text) THEN <<>>
    ELSE IF MatchAt(text, pat, i)
    THEN rep \o ReplaceFrom(text, pat, rep, i + Len(pat))
    ELSE <<text[i + 1]>> \o ReplaceFrom(text, pat, rep, i + 1)

Replace(text, pat, rep) == ReplaceFrom(text, pat, rep, 0)

\* text.encode('latin-1') raises UnicodeEncodeError above U+00FF
CanEncodeLatin1(text) == \A i \in 1..Len(text) : text[i] <= 255

IsOctal(c) == c \in 48..55

HexValue(c) ==
    IF c \in 48..57 THEN c - 48
    ELSE IF c \in 97..102 THEN c - 87
    ELSE IF c \in 65..70 THEN c - 55
    ELSE -1

SimpleEscapes ==
    (BS :> BS) @@ (SQ :> SQ) @@ (DQ :> DQ) @@ (97 :> 7) @@ (98 :> 8)
    @@ (102 :> 12) @@ (LetterN :> LF) @@ (114 :> 13) @@ (116 :> 9)
    @@ (118 :> 11)

\* bytes.decode('unicode_escape') of latin-1 bytes, from the 0-based index
\* i: the decoded text, or ok = FALSE for UnicodeDecodeError (a backslash
\* at the end, a truncated \x, \u or \U escape, any \N escape).
RECURSIVE DecodeFrom(_, _)
DecodeFrom(b, i) ==
    IF i >= Len(b) THEN [ok |-> TRUE, text |-> <<>>]
    ELSE IF b[i + 1] # BS
    THEN LET rest == DecodeFrom(b, i + 1) IN
         [ok |-> rest.ok, text |-> <<b[i + 1]>> \o rest.text]
    ELSE IF i + 1 >= Len(b) THEN [ok |-> FALSE, text |-> <<>>]
    ELSE LET c == b[i + 2] IN
         IF c = LF THEN DecodeFrom(b, i + 2)
         ELSE IF c \in DOMAIN SimpleEscapes
         THEN LET rest == DecodeFrom(b, i + 2) IN
              [ok |-> rest.ok, text |-> <<SimpleEscapes[c]>> \o rest.text]
         ELSE IF IsOctal(c)
         THEN LET n == IF i + 3 < Len(b) /\ IsOctal(b[i + 3])
                       THEN IF i + 4 < Len(b) /\ IsOctal(b[i + 4])
                            THEN 3 ELSE 2
                       ELSE 1
                  v == IF n = 1 THEN c - 48
                       ELSE IF n = 2 THEN (c - 48) * 8 + (b[i + 3] - 48)
                       ELSE (c - 48) * 64 + (b[i + 3] - 48) * 8
                            + (b[i + 4] - 48)
                  rest == DecodeFrom(b, i + 1 + n) IN
              [ok |-> rest.ok, text |-> <<v>> \o rest.text]
         ELSE IF c \in {LetterX, 117, 85}
         THEN LET n == IF c = LetterX THEN 2 ELSE IF c = 117 THEN 4 ELSE 8
              IN
              IF i + 2 + n <= Len(b)
                 /\ \A k \in 1..n : HexValue(b[i + 2 + k]) >= 0
              THEN LET RECURSIVE Hex(_)
                       Hex(k) == IF k = 0 THEN 0
                                 ELSE Hex(k - 1) * 16
                                      + HexValue(b[i + 2 + k])
                       rest == DecodeFrom(b, i + 2 + n) IN
                   [ok |-> rest.ok, text |-> <<Hex(n)>> \o rest.text]
              ELSE [ok |-> FALSE, text |-> <<>>]
         ELSE IF c = 78 THEN [ok |-> FALSE, text |-> <<>>]
         ELSE LET rest == DecodeFrom(b, i + 2) IN
              [ok |-> rest.ok, text |-> <<BS, c>> \o rest.text]

\* an exception that leaves clean_text, written as a text no str equals
RaisedText == <<-1>>

DecodeOrRaise(text) ==
    IF ~CanEncodeLatin1(text) THEN RaisedText
    ELSE LET d == DecodeFrom(text, 0) IN IF d.ok THEN d.text ELSE RaisedText

\* text.encode('latin-1').decode('unicode_escape') inside try/except
\* (UnicodeDecodeError, UnicodeEncodeError): pass
DecodeOrKeep(text) ==
    IF ~CanEncodeLatin1(text) THEN text
    ELSE LET d == DecodeFrom(text, 0) IN IF d.ok THEN d.text ELSE text

UnescapeSwapped(text) ==
    Replace(Replace(Replace(text, <<BS, LetterN>>, <<LF>>),
                    <<DQ>>, <<BS, DQ>>),
            <<BS, SQ>>, <<SQ>>)

\* the three replacements clean_text starts with
UnescapeArtifacts(text) ==
    Replace(Replace(Replace(text, <<BS, LetterN>>, <<LF>>),
                    <<BS, DQ>>, <<DQ>>),
            <<BS, SQ>>, <<SQ>>)

\* the tuple branch of clean_text
UnwrapTuple(text) ==
    IF StartsWith(text, TuplePrefix) /\ EndsWith(text, TupleSuffix)
    THEN LET start_idx == Find(text, TuplePrefix) + 9
             end_idx == RFind(text, TupleSuffix) IN
         IF start_idx > 8 /\ end_idx > start_idx
         THEN DecodeOrKeep(Slice(text, start_idx, end_idx))
         ELSE text
    ELSE text

\* ResultFormatter.clean_text on a str
clean_text(text) == UnwrapTuple(UnescapeArtifacts(text))

(***************************************************************************)
(* Task results.  A result object has a subset of the attributes raw,      *)
(* result and output, and a string conversion.                             *)
(***************************************************************************)
TaskResult(attrs, raw, result, output, str) ==
    [attrs |-> attrs, raw |-> raw, result |-> result, output |-> output,
     str |-> str]

FormatRawIfPresent(r) ==
    IF "raw" \in r.attrs THEN r.raw
    ELSE IF "result" \in r.attrs THEN r.result
    ELSE IF "output" \in r.attrs THEN r.output
    ELSE r.str

\* ResultFormatter.format_task_result; an empty raw is falsy
format_task_result(r) ==
    IF "raw" \in r.attrs /\ r.raw # <<>> THEN r.raw
    ELSE IF "result" \in r.attrs THEN r.result
    ELSE IF "output" \in r.attrs THEN r.output
    ELSE r.str

(***************************************************************************)
(* The formatting pipeline on bounded inputs: a text is built from at most *)
(* MaxPieces pieces and handed over plain, as a stringified ('raw', ...)   *)
(* tuple, inside a tuple wrapper (once, twice, or left open).              *)
(***************************************************************************)
Pieces ==
    {<<BS>>, <<LetterN>>, <<SQ>>, <<DQ>>, <<LF>>, <<LetterZ>>, <<Zhe>>,
     <<RP>>, <<LetterX, 53, 99>>}

RECURSIVE Flatten(_)
Flatten(ps) == IF ps = <<>> THEN <<>> ELSE Head(ps) \o Flatten(Tail(ps))

Bodies == {Flatten(ps) : ps \in SeqsUpTo(Pieces, MaxPieces)}

Modes == {"plain", "repr", "tuple", "nested", "open"}

\* repr() of a str writes a newline as backslash, n
ReprNewlines(text) == Replace(text, <<LF>>, <<BS, LetterN>>)

RawText(b, m) ==
    IF m = "plain" THEN b
    ELSE IF m = "repr" THEN TuplePrefix \o ReprNewlines(b) \o TupleSuffix
    ELSE IF m = "tuple" THEN TuplePrefix \o b \o TupleSuffix
    ELSE IF m = "nested"
    THEN TuplePrefix \o TuplePrefix \o b \o TupleSuffix \o TupleSuffix
    ELSE TuplePrefix \o b

OtherText == <<LetterZ, LetterZ>>

FormatIdle ==
    /\ body = <<>>
    /\ mode = "plain"
    /\ task_result = TaskResult({}, <<>>, <<>>, <<>>, <<>>)
    /\ stage = "idle"
    /\ formatted = <<>>
    /\ cleaned = <<>>
    /\ recleaned = <<>>

FormatInit ==
    /\ body \in Bodies
    /\ mode \in Modes
    /\ \E attrs \in SUBSET {"raw", "result", "output"} :
          /\ attrs # {"raw"} => (body \in {<<>>, <<Zhe>>} /\ mode = "plain")
          /\ task_result =
               TaskResult(attrs, RawText(body, mode), OtherText,
                          <<LetterZ>>, <<LP, RP>>)
    /\ stage = "result"
    /\ formatted = <<>>
    /\ cleaned = <<>>
    /\ recleaned = <<>>

FormatTaskResult ==
    /\ stage = "result"
    /\ formatted' = format_task_result(task_result)
    /\ stage' = "formatted"
    /\ UNCHANGED <<body, mode, task_result, cleaned, recleaned>>
    /\ UNCHANGED notFormat

CleanText ==
    /\ stage = "formatted"
    /\ cleaned' = clean_text(formatted)
    /\ stage' = "cleaned"
    /\ UNCHANGED <<body, mode, task_result, formatted, recleaned>>
    /\ UNCHANGED notFormat

\* str(value) of values that are not a str: None, a ('raw', 'z') tuple
ObjectStrings ==
    {<<78, 111, LetterN, 101>>, TuplePrefix \o <<LetterZ>> \o TupleSuffix}

\* clean_text on a value that is not a str: formatted holds str(value)
CleanObject ==
    /\ stage = "result"
    /\ \E s \in ObjectStrings :
          /\ formatted' = s
          /\ cleaned' = s
    /\ stage' = "object"
    /\ UNCHANGED <<body, mode, task_result, recleaned>>
    /\ UNCHANGED notFormat

CleanTextAgain ==
    /\ stage = "cleaned"
    /\ recleaned' = clean_text(cleaned)
    /\ stage' = "recleaned"
    /\ UNCHANGED <<body, mode, task_result, formatted, cleaned>>
    /\ UNCHANGED notFormat

StoreInit ==
    /\ files \in [ConfigNames -> AllContents]
    /\ files[<<"gaming.yaml">>] \in FewContents
    /\ cache = <<>>
    /\ call = [op |-> "init", type |-> <<>>, name |-> <<>>]
    /\ ret = Returned(NoDocument)
    /\ loads = [p \in Pairs |-> 0]
    /\ reads = [p \in Pairs |-> 0]
    /\ validated = [p \in Pairs |-> 0]
    /\ clears = 0

LoadConfig ==
    /\ \E p \in Pairs : load_config(p[1], p[2])
    /\ UNCHANGED notStore

ClearCache == clear_cache /\ UNCHANGED notStore

StoreIdle ==
    /\ files = [n \in ConfigNames |-> Missing]
    /\ cache = <<>>
    /\ call = [op |-> "init", type |-> <<>>, name |-> <<>>]
    /\ ret = Returned(NoDocument)
    /\ loads = [p \in Pairs |-> 0]
    /\ reads = [p \in Pairs |-> 0]
    /\ validated = [p \in Pairs |-> 0]
    /\ clears = 0

(***************************************************************************)
(* ResultSaver (core/result_saver.py).  Time is a clock of whole seconds,  *)
(* the resolution of both timestamps.  A directory is named by its base    *)
(* and its timestamp; stamp 0 names the base directory itself.             *)
(***************************************************************************)
BaseDir == [base |-> "results", stamp |-> 0]

ResultsDir(timestamp) == [base |-> "results", stamp |-> timestamp]

\* results_dir = None
NoDir == [base |-> "None", stamp |-> 0]

\* a directory named by the caller
Elsewhere == [base |-> "elsewhere", stamp |-> 0]

Parent(p) == [p EXCEPT !.stamp = 0]

\* Path.mkdir(parents=True): fails when the path exists
Mkdir(ds, p) ==
    IF p \in ds THEN [ok |-> FALSE, dirs |-> ds]
    ELSE [ok |-> TRUE, dirs |-> ds \cup {p, Parent(p)}]

AlwaysMkdir(ds, p) == TRUE

\* the guards "if not ... .exists()" of create_results_directory
NeedsMkdir(ds, p) == p \notin ds

\* ResultSaver.create_results_directory at time now on the directories ds
CreateDirOutcome(ds, now) ==
    LET results_dir == ResultsDir(now)
        m1 == IF NeedsMkdir(ds, BaseDir) THEN Mkdir(ds, BaseDir)
              ELSE [ok |-> TRUE, dirs |-> ds]
        m2 == IF ~m1.ok THEN m1
              ELSE IF NeedsMkdir(m1.dirs, results_dir)
                   THEN Mkdir(m1.dirs, results_dir)
                   ELSE [ok |-> TRUE, dirs |-> m1.dirs]
    IN [ok |-> m2.ok, path |-> results_dir, dirs |-> m2.dirs]

\* "Неизвестно"
Unknown == <<1053, 1077, 1080, 1079, 1074, 1077, 1089, 1090, 1085, 1086>>

IsSpace(c) == c \in {9, 10, 11, 12, 13, 32}

RECURSIVE Strip(_)
Strip(text) ==
    IF text = <<>> THEN text
    ELSE IF IsSpace(Head(text)) THEN Strip(Tail(text))
    ELSE IF IsSpace(text[Len(text)])
         THEN Strip(SubSeq(text, 1, Len(text) - 1))
         ELSE text

\* the agent attribute of a result: absent, a str (no name attribute) or an
\* object with a name
NoAgent == [kind |-> "absent", name |-> <<>>]

AgentText == [kind |-> "str", name |-> <<>>]

AgentNamed(name) == [kind |-> "object", name |-> name]

\* a result as save_marketing_results sees it
SavedResult(r, agent, name) ==
    [attrs |-> r.attrs, raw |-> r.raw, result |-> r.result,
     output |-> r.output, str |-> r.str, agent |-> agent, name |-> name]

AgentNameOf(r) ==
    IF r.agent.kind = "object"
    THEN Replace(Strip(r.agent.name), <<LF>>, <<32>>)
    ELSE Unknown

TaskNameOf(r) == IF r.name # <<>> THEN r.name ELSE Unknown

\* ResultSaver._write_task_result
TaskSection(task_num, r) ==
    [kind |-> "task", index |-> task_num, agent |-> AgentNameOf(r),
     task |-> TaskNameOf(r), body |-> clean_text(format_task_result(r))]

OverallSection(text) ==
    [kind |-> "overall", index |-> 0, agent |-> <<>>, task |-> <<>>,
     body |-> clean_text(text)]

SectionsFromZero(items) ==
    [k \in 1..Len(items) |-> TaskSection(k - 1, items[k])]

\* the loop "for i, task_result in enumerate(results, 1)"
SectionsOf(items) == [k \in 1..Len(items) |-> TaskSection(k, items[k])]

\* ResultSaver._write_results_header and _write_results_content
DocumentOf(results) ==
    [header |-> TRUE,
     sections |-> IF results.iterable THEN SectionsOf(results.items)
                  ELSE <<OverallSection(results.str)>>]

NoDocumentWritten == [header |-> FALSE, sections |-> <<>>]

\* <dir>/<name>_<timestamp>.md; config_info.md has no timestamp (0)
FilePath(dir, name, timestamp) ==
    [dir |-> dir, name |-> name, stamp |-> timestamp]

NoFile == FilePath(NoDir, "none", 0)

SaveResult(success, file_path, error_message) ==
    [success |-> success, file_path |-> file_path,
     error_message |-> error_message]

NoSaveResult == SaveResult(FALSE, NoFile, "none")

\* the results handed to save_marketing_results
SavedResults ==
    {SavedResult(TaskResult({}, <<>>, <<>>, <<>>, <<Zhe, BS, DQ>>),
                 AgentText, <<LetterZ>>),
     SavedResult(TaskResult({}, <<>>, <<>>, <<>>,
                     TuplePrefix \o <<LetterZ, BS, LetterN, LetterZ>>
                                 \o TupleSuffix),
                 NoAgent, <<>>),
     SavedResult(TaskResult({"raw"}, <<Zhe>>, <<>>, <<>>, <<LP, RP>>),
                 AgentNamed(<<32, LetterZ, LF, LetterZ, 32>>), <<Zhe>>)}

Iterable(items) == [iterable |-> TRUE, items |-> items, str |-> <<>>]

Scalar(text) == [iterable |-> FALSE, items |-> <<>>, str |-> text]

ResultsValues ==
    {Iterable(items) : items \in SeqsUpTo(SavedResults, MaxResults)}
    \cup {Scalar(<<LetterZ, BS, LetterN>>),
          Scalar(TuplePrefix \o <<LetterZ>> \o TupleSuffix)}

\* results_dir: None, a directory of the caller, or the path the latest
\* create_results_directory returned
DirArgs ==
    {NoDir, Elsewhere}
    \cup {created[i].path : i \in {Len(created)} \ {0}}

SaverReturnedPath(p) ==
    [kind |-> "path", path |-> p, result |-> NoSaveResult]

SaverReturned(r) == [kind |-> "SaveResult", path |-> NoDir, result |-> r]

SaverRaised == [kind |-> "raise", path |-> NoDir, result |-> NoSaveResult]

SaveOutcomeOSErrorOnly(error, file_path) ==
    IF error = "none"
    THEN SaverReturned(SaveResult(TRUE, file_path, "none"))
    ELSE IF error \in {"FileNotFoundError", "FileExistsError"}
    THEN SaverReturned(SaveResult(FALSE, file_path, error))
    ELSE SaverRaised

\* the try of a save method: return SaveResult(success=True, file_path), or
\* except Exception as e: return SaveResult(False, file_path or "", str(e))
SaveOutcome(error, file_path) ==
    IF error = "none"
    THEN SaverReturned(SaveResult(TRUE, file_path, "none"))
    ELSE SaverReturned(SaveResult(FALSE, file_path, error))

\* a document of which only the title lines are of interest
TitleOnly == [header |-> TRUE, sections |-> <<>>]

\* probe: the two most recent runs of create_results_directory
Remember(log, entry) ==
    IF Len(log) < 2 THEN Append(log, entry) ELSE <<log[2], entry>>

create_results_directory ==
    LET c == CreateDirOutcome(dirs, clock) IN
    /\ scall' = [op |-> "create_results_directory",
                 results |-> Scalar(<<>>), results_dir |-> NoDir]
    /\ dirs' = c.dirs
    /\ sret' = IF c.ok THEN SaverReturnedPath(c.path) ELSE SaverRaised
    /\ created' = Remember(created,
                     [time |-> clock, ok |-> c.ok, path |-> c.path])
    /\ UNCHANGED <<clock, lastWritten, saves>>

\* a call runs within one second of the clock
save_marketing_results(results, results_dir) ==
    LET c == IF results_dir = NoDir THEN CreateDirOutcome(dirs, clock)
             ELSE [ok |-> TRUE, path |-> results_dir, dirs |-> dirs]
        file_path == FilePath(c.path, "marketing_strategy_results", clock)
        opened == c.ok /\ c.path \in c.dirs
    IN
    /\ saves < MaxSaves
    /\ saves' = saves + 1
    /\ scall' = [op |-> "save_marketing_results", results |-> results,
                 results_dir |-> results_dir]
    /\ dirs' = c.dirs
    /\ UNCHANGED clock
    /\ created' = IF results_dir = NoDir
                  THEN Remember(created,
                          [time |-> clock, ok |-> c.ok, path |-> c.path])
                  ELSE created
    /\ lastWritten' = IF opened
                      THEN [path |-> file_path, doc |-> DocumentOf(results)]
                      ELSE lastWritten
    /\ sret' = IF ~c.ok THEN SaveOutcome("FileExistsError", NoFile)
               ELSE IF ~opened
               THEN SaveOutcome("FileNotFoundError", file_path)
               ELSE SaveOutcome("none", file_path)

(***************************************************************************)
(* save_results_to_md of main.py, the writer that run calls.               *)
(***************************************************************************)
\* result_text of a task result: raw if truthy, else result, output, str
MainResultText(r) ==
    IF "raw" \in r.attrs /\ r.raw # <<>> THEN r.raw
    ELSE IF "result" \in r.attrs THEN r.result
    ELSE IF "output" \in r.attrs THEN r.output
    ELSE r.str

\* the tuple branch of the loop; its bare except keeps the text on any error
MainUnwrapTuple(text) ==
    IF StartsWith(text, TuplePrefix) /\ EndsWith(text, TupleSuffix)
    THEN LET start_idx == Find(text, TuplePrefix) + 9
             end_idx == RFind(text, TupleSuffix) IN
         IF start_idx > 8 /\ end_idx > start_idx
         THEN DecodeOrKeep(Slice(text, start_idx, end_idx))
         ELSE text
    ELSE text

\* one pass of the loop over the results
MainTaskSection(task_num, r) ==
    [kind |-> "task", index |-> task_num, agent |-> AgentNameOf(r),
     task |-> TaskNameOf(r),
     body |-> MainUnwrapTuple(UnescapeArtifacts(MainResultText(r)))]

\* the else branch: the three replacements on str(results), nothing more
MainOverallSection(text) ==
    [kind |-> "overall", index |-> 0, agent |-> <<>>, task |-> <<>>,
     body |-> UnescapeArtifacts(text)]

MainDocumentOf(results) ==
    [header |-> TRUE,
     sections |-> IF results.iterable
                  THEN [k \in 1..Len(results.items) |->
                           MainTaskSection(k, results.items[k])]
                  ELSE <<MainOverallSection(results.str)>>]

\* return file_path
SaverReturnedFile(file_path) ==
    [kind |-> "file_path", path |-> NoDir,
     result |-> SaveResult(TRUE, file_path, "none")]

\* nothing is caught: a failing makedirs or open leaves the function
save_results_to_md(results, results_dir) ==
    LET c == IF results_dir = NoDir THEN CreateDirOutcome(dirs, clock)
             ELSE [ok |-> TRUE, path |-> results_dir, dirs |-> dirs]
        file_path == FilePath(c.path, "marketing_strategy_results", clock)
        opened == c.ok /\ c.path \in c.dirs
    IN
    /\ saves < MaxSaves
    /\ saves' = saves + 1
    /\ scall' = [op |-> "save_results_to_md", results |-> results,
                 results_dir |-> results_dir]
    /\ dirs' = c.dirs
    /\ lastWritten' = IF opened
                      THEN [path |-> file_path,
                            doc |-> MainDocumentOf(results)]
                      ELSE lastWritten
    /\ sret' = IF opened THEN SaverReturnedFile(file_path) ELSE SaverRaised
    /\ UNCHANGED <<clock, created>>

\* config_info: a dict, or a value without items()
ConfigInfos == {"dict", "None"}

save_config_info(config_info, results_dir) ==
    LET file_path == FilePath(results_dir, "config_info", 0)
        opened == results_dir # NoDir /\ results_dir \in dirs
    IN
    /\ saves < MaxSaves
    /\ saves' = saves + 1
    /\ scall' = [op |-> "save_config_info", results |-> Scalar(<<>>),
                 results_dir |-> results_dir]
    /\ lastWritten' = IF opened
                      THEN [path |-> file_path, doc |-> TitleOnly]
                      ELSE lastWritten
    /\ sret' = IF results_dir = NoDir THEN SaveOutcome("TypeError", NoFile)
               ELSE IF ~opened
               THEN SaveOutcome("FileNotFoundError", file_path)
               ELSE IF config_info # "dict"
               THEN SaveOutcome("AttributeError", file_path)
               ELSE SaveOutcome("none", file_path)
    /\ UNCHANGED <<dirs, clock, created>>

save_error_report(results_dir) ==
    LET c == IF results_dir = NoDir THEN CreateDirOutcome(dirs, clock)
             ELSE [ok |-> TRUE, path |-> results_dir, dirs |-> dirs]
        file_path == FilePath(c.path, "error_report", clock)
        opened == c.ok /\ c.path \in c.dirs
    IN
    /\ saves < MaxSaves
    /\ saves' = saves + 1
    /\ scall' = [op |-> "save_error_report", results |-> Scalar(<<>>),
                 results_dir |-> results_dir]
    /\ dirs' = c.dirs
    /\ UNCHANGED clock
    /\ created' = IF results_dir = NoDir
                  THEN Remember(created,
                          [time |-> clock, ok |-> c.ok, path |-> c.path])
                  ELSE created
    /\ lastWritten' = IF opened
                      THEN [path |-> file_path, doc |-> TitleOnly]
                      ELSE lastWritten
    /\ sret' = IF ~c.ok THEN SaveOutcome("FileExistsError", NoFile)
               ELSE IF ~opened
               THEN SaveOutcome("FileNotFoundError", file_path)
               ELSE SaveOutcome("none", file_path)

SaverIdle ==
    /\ dirs = {}
    /\ clock = 1
    /\ lastWritten = [path |-> NoFile, doc |-> NoDocumentWritten]
    /\ scall = [op |-> "init", results |-> Scalar(<<>>),
                results_dir |-> NoDir]
    /\ sret = SaverReturnedPath(NoDir)
    /\ created = <<>>
    /\ saves = 0

SaverInit ==
    /\ dirs \in {{}, {Elsewhere}}
    /\ clock = 1
    /\ lastWritten = [path |-> NoFile, doc |-> NoDocumentWritten]
    /\ scall = [op |-> "init", results |-> Scalar(<<>>),
                results_dir |-> NoDir]
    /\ sret = SaverReturnedPath(NoDir)
    /\ created = <<>>
    /\ saves = 0

\* a second passes
Tick ==
    /\ clock < MaxClock
    /\ clock' = clock + 1
    /\ UNCHANGED <<dirs, lastWritten, scall, sret, created, saves>>
    /\ UNCHANGED notSaver

CreateResultsDirectory == create_results_directory /\ UNCHANGED notSaver

SaveMarketingResults ==
    /\ \E results \in ResultsValues, results_dir \in DirArgs :
          save_marketing_results(results, results_dir)
    /\ UNCHANGED notSaver

SaveResultsToMd ==
    /\ \E results \in ResultsValues, results_dir \in DirArgs :
          save_results_to_md(results, results_dir)
    /\ UNCHANGED notSaver

SaveConfigInfo ==
    /\ \E config_info \in ConfigInfos, results_dir \in DirArgs :
          save_config_info(config_info, results_dir)
    /\ UNCHANGED notSaver

SaveErrorReport ==
    /\ \E results_dir \in DirArgs : save_error_report(results_dir)
    /\ UNCHANGED notSaver

(***************************************************************************)
(* The crews.  StandardCrew and GamingCrew (crews/) build their tasks from *)
(* the documents of their own ConfigManager; MarketingPostsCrew and        *)
(* GamingMarketingPostsCrew (crew.py) declare theirs with the @task        *)
(* decorator, which collects them in the order of definition.              *)
(***************************************************************************)
TaskDecl(name, agent, context) ==
    [name |-> name, agent |-> agent, context |-> context]

\* StandardCrew.get_tasks and the accessors it calls
StandardTasks ==
    <<TaskDecl("research_task", "lead_market_analyst", <<>>),
      TaskDecl("project_understanding_task", "lead_market_analyst", <<>>),
      TaskDecl("marketing_strategy_task", "chief_marketing_strategist",
               <<>>),
      TaskDecl("campaign_idea_task", "chief_marketing_strategist", <<>>),
      TaskDecl("copy_creation_task", "creative_content_creator", <<>>)>>

\* GamingCrew.get_tasks and the accessors it calls
GamingTasks ==
    <<TaskDecl("gaming_market_research_task", "gaming_market_analyst", <<>>),
      TaskDecl("gaming_audience_analysis_task", "gaming_market_analyst",
               <<>>),
      TaskDecl("gaming_legal_risk_assessment_task",
               "legal_compliance_specialist", <<>>),
      TaskDecl("gaming_community_strategy_task", "community_manager", <<>>),
      TaskDecl("gaming_marketing_strategy_task", "gaming_strategist", <<>>),
      TaskDecl("gaming_content_creation_task", "content_creator_gaming",
               <<>>),
      TaskDecl("gaming_technical_positioning_task",
               "technical_marketing_specialist", <<>>),
      TaskDecl("gaming_campaign_execution_task", "gaming_strategist",
               <<>>)>>

\* the @task methods of MarketingPostsCrew, in the order of definition
LegacyStandardTasks ==
    <<TaskDecl("research_task", "lead_market_analyst", <<>>),
      TaskDecl("project_understanding_task", "chief_marketing_strategist",
               <<>>),
      TaskDecl("marketing_strategy_task", "chief_marketing_strategist",
               <<>>),
      TaskDecl("campaign_idea_task", "creative_content_creator", <<>>),
      TaskDecl("copy_creation_task", "creative_content_creator",
               <<"marketing_strategy_task", "campaign_idea_task">>)>>

LegacyGamingTasksReordered ==
    <<TaskDecl("gaming_market_research_task", "gaming_market_analyst", <<>>),
      TaskDecl("gaming_audience_analysis_task", "gaming_strategist", <<>>),
      TaskDecl("gaming_marketing_strategy_task", "gaming_strategist", <<>>),
      TaskDecl("gaming_technical_positioning_task", "content_creator_gaming",
               <<"gaming_marketing_strategy_task",
                 "gaming_content_creation_task">>),
      TaskDecl("gaming_content_creation_task", "content_creator_gaming",
               <<>>),
      TaskDecl("gaming_legal_risk_assessment_task",
               "legal_compliance_specialist", <<>>),
      TaskDecl("gaming_community_strategy_task", "community_manager", <<>>),
      TaskDecl("gaming_campaign_execution_task",
               "technical_marketing_specialist",
               <<"gaming_marketing_strategy_task",
                 "gaming_legal_risk_assessment_task",
                 "gaming_community_strategy_task">>)>>

\* the @task methods of GamingMarketingPostsCrew, in the order of definition
LegacyGamingTasks ==
    <<TaskDecl("gaming_market_research_task", "gaming_market_analyst", <<>>),
      TaskDecl("gaming_audience_analysis_task", "gaming_strategist", <<>>),
      TaskDecl("gaming_marketing_strategy_task", "gaming_strategist", <<>>),
      TaskDecl("gaming_content_creation_task", "content_creator_gaming",
               <<>>),
      TaskDecl("gaming_technical_positioning_task", "content_creator_gaming",
               <<"gaming_marketing_strategy_task",
                 "gaming_content_creation_task">>),
      TaskDecl("gaming_legal_risk_assessment_task",
               "legal_compliance_specialist", <<>>),
      TaskDecl("gaming_community_strategy_task", "community_manager", <<>>),
      TaskDecl("gaming_campaign_execution_task",
               "technical_marketing_specialist",
               <<"gaming_marketing_strategy_task",
                 "gaming_legal_risk_assessment_task",
                 "gaming_community_strategy_task">>)>>

Variants == {"StandardCrew", "GamingCrew"}

LegacyVariants == {"MarketingPostsCrew", "GamingMarketingPostsCrew"}

DeclaredTasks(variant) ==
    CASE variant = "StandardCrew" -> StandardTasks
      [] variant = "GamingCrew" -> GamingTasks
      [] variant = "MarketingPostsCrew" -> LegacyStandardTasks
      [] OTHER -> LegacyGamingTasks

IsGaming(variant) == variant \in {"GamingCrew", "GamingMarketingPostsCrew"}

\* "agents.yaml" / "agents_gaming.yaml"
AgentsFileOf(variant) ==
    IF IsGaming(variant) THEN <<"agents", "gaming.yaml">>
    ELSE <<"agents.yaml">>

\* "tasks.yaml" / "tasks_gaming.yaml"
TasksFileOf(variant) ==
    IF IsGaming(variant) THEN <<"tasks", "gaming.yaml">> ELSE <<"tasks.yaml">>

CrewFileNames ==
    {AgentsFileOf(v) : v \in Variants} \cup {TasksFileOf(v) : v \in Variants}

AgentNames(variant) ==
    {DeclaredTasks(variant)[i].agent : i \in 1..Len(DeclaredTasks(variant))}

\* a document with one entry per declared name, all with the given fields
RECURSIVE EntriesFor(_, _)
EntriesFor(names, fields) ==
    IF names = <<>> THEN <<>>
    ELSE <<[name |-> Head(names), isdict |-> TRUE, fields |-> fields]>>
         \o EntriesFor(Tail(names), fields)

RECURSIVE SeqOfSet(_)
SeqOfSet(S) ==
    IF S = {} THEN <<>>
    ELSE LET x == CHOOSE y \in S : TRUE IN <<x>> \o SeqOfSet(S \ {x})

TaskNames(variant) ==
    [i \in 1..Len(DeclaredTasks(variant)) |-> DeclaredTasks(variant)[i].name]

\* what a configuration file of a crew can hold
CrewContents(names, required) ==
    {Missing, Malformed,
     FileOf([mapping |-> TRUE, entries |-> <<>>]),
     FileOf([mapping |-> TRUE,
             entries |-> EntriesFor(names, Range(required))]),
     FileOf([mapping |-> TRUE,
             entries |-> EntriesFor(names, {required[1]})])}

ContentsOfFile(name) ==
    LET v == IF name[1] \in {"agents", "tasks"} THEN "GamingCrew"
             ELSE "StandardCrew" IN
    IF name = AgentsFileOf(v)
    THEN CrewContents(SeqOfSet(AgentNames(v)), AgentFields)
    ELSE CrewContents(TaskNames(v), TaskFields)

\* ConfigManager.load_config as a function of the files and the cache
LoadThrough(fs, ch, config_type, config_name) ==
    LET key == CacheKey(config_type, config_name) IN
    IF key \in DOMAIN ch THEN [ret |-> Returned(ch[key]), cache |-> ch]
    ELSE IF fs[config_name].state = "missing"
    THEN [ret |-> Raised(FileNotFoundError(config_name)), cache |-> ch]
    ELSE LET outcome ==
               LoadOutcome(config_type, config_name, fs[config_name]) IN
         [ret |-> outcome,
          cache |-> IF outcome.kind = "ok"
                    THEN [k \in DOMAIN ch \cup {key} |->
                             IF k = key THEN outcome.value ELSE ch[k]]
                    ELSE ch]

HasEntry(doc, name) == \E i \in 1..Len(doc.entries) : doc.entries[i].name = name

EntryOf(doc, name) ==
    doc.entries[CHOOSE i \in 1..Len(doc.entries) : doc.entries[i].name = name]

\* config.get(name, {}).get(field, default): where the value comes from
ValueSource(doc, name, field) ==
    IF HasEntry(doc, name) /\ field \in EntryOf(doc, name).fields
    THEN "document" ELSE "default"

\* a Task as an accessor of crews/ builds it
BuiltTask(decl, tasks_config) ==
    [name |-> decl.name, agent |-> decl.agent, context |-> decl.context,
     description |-> ValueSource(tasks_config, decl.name, "description"),
     expected_output |->
         ValueSource(tasks_config, decl.name, "expected_output")]

StandardAgentsSwapped ==
    <<"chief_marketing_strategist", "lead_market_analyst",
      "creative_content_creator">>

\* StandardCrew.get_agents
StandardAgents ==
    <<"lead_market_analyst", "chief_marketing_strategist",
      "creative_content_creator">>

GamingAgentsShort ==
    <<"gaming_market_analyst", "gaming_strategist",
      "content_creator_gaming", "community_manager",
      "legal_compliance_specialist">>

\* GamingCrew.get_agents
GamingAgents ==
    <<"gaming_market_analyst", "gaming_strategist",
      "content_creator_gaming", "community_manager",
      "legal_compliance_specialist", "technical_marketing_specialist">>

DeclaredAgents(variant) ==
    IF IsGaming(variant) THEN GamingAgents ELSE StandardAgents

\* an Agent as an accessor of crews/ builds it
BuiltAgent(name, agents_config) ==
    [name |-> name,
     role |-> ValueSource(agents_config, name, "role"),
     goal |-> ValueSource(agents_config, name, "goal"),
     backstory |-> ValueSource(agents_config, name, "backstory")]

NoTasks == <<>>

CrewReturned(tasks) ==
    [kind |-> "ok", tasks |-> tasks, agents |-> <<>>, error |-> NoError]

CrewReturnedAgents(agents) ==
    [kind |-> "ok", tasks |-> NoTasks, agents |-> agents, error |-> NoError]

CrewRaised(e) ==
    [kind |-> "raise", tasks |-> NoTasks, agents |-> <<>>, error |-> e]

KeyError(name) ==
    [kind |-> "KeyError", message |-> <<name>>, config_file |-> <<>>,
     field |-> <<>>]

\* get_tasks of StandardCrew / GamingCrew: every accessor loads the tasks
\* document, then the agents document of its agent accessor; after the
\* first accessor both come from the cache
TasksOutcome(fs, ch, variant) ==
    LET t == LoadThrough(fs, ch, TasksType, TasksFileOf(variant))
        a == LoadThrough(fs, t.cache, AgentsType, AgentsFileOf(variant))
        decls == DeclaredTasks(variant)
    IN
    IF t.ret.kind # "ok"
    THEN [ret |-> CrewRaised(t.ret.error), cache |-> t.cache]
    ELSE IF a.ret.kind # "ok"
    THEN [ret |-> CrewRaised(a.ret.error), cache |-> a.cache]
    ELSE [ret |-> CrewReturned([i \in 1..Len(decls) |->
                                  BuiltTask(decls[i], t.ret.value)]),
          cache |-> a.cache]

get_tasks(variant) ==
    LET o == TasksOutcome(cfiles, ccache, variant) IN
    /\ ccall' = [op |-> "get_tasks", variant |-> variant, name |-> "none"]
    /\ cret' = o.ret
    /\ ccache' = o.cache
    /\ UNCHANGED cfiles

\* an agent accessor of StandardCrew / GamingCrew: it loads the agents
\* document of its variant and reads its entry with fallback defaults
AgentOutcome(fs, ch, variant, name) ==
    LET a == LoadThrough(fs, ch, AgentsType, AgentsFileOf(variant)) IN
    IF a.ret.kind # "ok"
    THEN [ret |-> CrewRaised(a.ret.error), cache |-> a.cache]
    ELSE [ret |-> CrewReturnedAgents(<<BuiltAgent(name, a.ret.value)>>),
          cache |-> a.cache]

agent_accessor(variant, name) ==
    LET o == AgentOutcome(cfiles, ccache, variant, name) IN
    /\ ccall' = [op |-> "agent", variant |-> variant, name |-> name]
    /\ cret' = o.ret
    /\ ccache' = o.cache
    /\ UNCHANGED cfiles

\* get_agents of StandardCrew / GamingCrew: the accessors in a fixed order;
\* the first one that fails ends the call, and all read the same document
AgentsOutcome(fs, ch, variant) ==
    LET a == LoadThrough(fs, ch, AgentsType, AgentsFileOf(variant))
        names == DeclaredAgents(variant)
    IN
    IF a.ret.kind # "ok"
    THEN [ret |-> CrewRaised(a.ret.error), cache |-> a.cache]
    ELSE [ret |-> CrewReturnedAgents([i \in 1..Len(names) |->
                                        BuiltAgent(names[i], a.ret.value)]),
          cache |-> a.cache]

get_agents(variant) ==
    LET o == AgentsOutcome(cfiles, ccache, variant) IN
    /\ ccall' = [op |-> "get_agents", variant |-> variant, name |-> "none"]
    /\ cret' = o.ret
    /\ ccache' = o.cache
    /\ UNCHANGED cfiles

\* self.tasks of a crew.py class: the @task methods in definition order;
\* each one subscripts tasks_config and agents_config by a fixed key
collect_tasks(variant) ==
    LET tasks_config == cfiles[TasksFileOf(variant)]
        agents_config == cfiles[AgentsFileOf(variant)]
        decls == DeclaredTasks(variant)
        lacking == {i \in 1..Len(decls) :
                       \/ ~HasEntry(tasks_config.doc, decls[i].name)
                       \/ ~HasEntry(agents_config.doc, decls[i].agent)}
    IN
    /\ ccall' = [op |-> "tasks", variant |-> variant, name |-> "none"]
    /\ cret' = IF lacking # {}
               THEN CrewRaised(KeyError(
                        decls[CHOOSE i \in lacking :
                                 \A j \in lacking : i <= j].name))
               ELSE CrewReturned(
                        [i \in 1..Len(decls) |->
                            BuiltTask(decls[i], tasks_config.doc)])
    /\ UNCHANGED <<cfiles, ccache>>

CrewIdle ==
    /\ cfiles = [n \in CrewFileNames |-> Missing]
    /\ ccache = <<>>
    /\ ccall = [op |-> "init", variant |-> "StandardCrew", name |-> "none"]
    /\ cret = CrewReturned(NoTasks)

CrewInit ==
    /\ cfiles \in [CrewFileNames -> UNION {ContentsOfFile(n) :
                                             n \in CrewFileNames}]
    /\ \A n \in CrewFileNames : cfiles[n] \in ContentsOfFile(n)
    /\ ccache = <<>>
    /\ ccall = [op |-> "init", variant |-> "StandardCrew", name |-> "none"]
    /\ cret = CrewReturned(NoTasks)

GetTasks ==
    /\ \E variant \in Variants : get_tasks(variant)
    /\ UNCHANGED notCrew

CollectTasks ==
    /\ \E variant \in LegacyVariants : collect_tasks(variant)
    /\ UNCHANGED notCrew

GetAgents ==
    /\ \E variant \in Variants : get_agents(variant)
    /\ UNCHANGED notCrew

AgentAccessor ==
    /\ \E variant \in Variants :
          \E name \in Range(DeclaredAgents(variant)) :
             agent_accessor(variant, name)
    /\ UNCHANGED notCrew

(***************************************************************************)
(* BaseCrew: construction step by step, and execute.  The engine is the    *)
(* external Crew.kickoff: it returns an ordered output or raises.          *)
(***************************************************************************)
ConstructionOrderValidateFirst ==
    <<"config", "validate_config", "llm", "initialize_crew">>

\* the statements of BaseCrew.__init__, in the order of the source
ConstructionOrder == <<"config", "llm", "validate_config", "initialize_crew">>

NewCrew(cls, config) ==
    [cls |-> cls, config |-> config, has_config |-> FALSE, pc |-> "building",
     steps |-> <<>>, error |-> "none", executes |-> 0,
     inputs |-> [topic |-> "none"], assembled |-> FALSE]

\* the statement of __init__ that runs next
NextStep ==
    IF pipe.pc = "building" /\ Len(pipe.steps) < Len(ConstructionOrder)
    THEN ConstructionOrder[Len(pipe.steps) + 1]
    ELSE "none"

\* a statement of __init__ has run: an error ends the construction
AfterStep(p, step, error) ==
    [p EXCEPT !.steps = Append(@, step),
              !.error = error,
              !.pc = IF error # "none" THEN "failed"
                     ELSE IF Len(p.steps) + 1 = Len(ConstructionOrder)
                     THEN "ready" ELSE "building"]

Inputs == {[topic |-> "a"], [topic |-> "b"]}

\* what one engine invocation does: the text of its outputs, or a failure
EngineOutcomes ==
    {[kind |-> "ok", text |-> "x"], [kind |-> "ok", text |-> "y"],
     [kind |-> "raise", text |-> "none"]}

NoOutput == <<>>

\* the ordered output of Crew.kickoff: one item for each task, in order
EngineOutput(crew, inputs, outcome) ==
    [i \in 1..Len(crew.tasks) |->
        [task |-> crew.tasks[i].name, inputs |-> inputs,
         text |-> outcome.text]]

Kickoff(crew, inputs, outcome) ==
    [inputs |-> inputs, kind |-> outcome.kind,
     output |-> IF outcome.kind = "ok"
                THEN EngineOutput(crew, inputs, outcome) ELSE NoOutput]

NoAssembly ==
    [agents |-> <<>>, tasks |-> <<>>, process |-> "none", verbose |-> FALSE]

NotAssembled(error, ch) ==
    [ok |-> FALSE, error |-> error, cache |-> ch, crew |-> NoAssembly]

\* Crew(agents=..., tasks=..., process=..., verbose=self.config.verbose),
\* its arguments evaluated from left to right: a is what get_agents did,
\* t what get_tasks did after it
CrewOfHierarchical(config, a, t) ==
    IF a.ret.kind # "ok" THEN NotAssembled(a.ret.error.kind, a.cache)
    ELSE IF t.ret.kind # "ok" THEN NotAssembled(t.ret.error.kind, t.cache)
    ELSE [ok |-> TRUE, error |-> "none", cache |-> t.cache,
          crew |-> [agents |-> a.ret.agents, tasks |-> t.ret.tasks,
                    process |-> "hierarchical",
                    verbose |-> config.verbose]]

CrewOf(config, a, t) ==
    IF a.ret.kind # "ok" THEN NotAssembled(a.ret.error.kind, a.cache)
    ELSE IF t.ret.kind # "ok" THEN NotAssembled(t.ret.error.kind, t.cache)
    ELSE [ok |-> TRUE, error |-> "none", cache |-> t.cache,
          crew |-> [agents |-> a.ret.agents, tasks |-> t.ret.tasks,
                    process |-> "sequential",
                    verbose |-> config.verbose]]

TasksAfter(fs, cls, a) == TasksOutcome(fs, a.cache, cls)

AgentsThenTasks(fs, cls, config, a) ==
    CrewOf(config, a, TasksAfter(fs, cls, a))

\* BaseCrew.create_crew: get_agents, then get_tasks, then Crew(...)
Assemble(fs, ch, cls, config) ==
    IF cls = "BaseCrew" THEN NotAssembled("NotImplementedError", ch)
    ELSE AgentsThenTasks(fs, cls, config, AgentsOutcome(fs, ch, cls))

EngineCallsRetrying(crew, inputs, outcomes) ==
    IF outcomes[1].kind = "raise"
    THEN <<Kickoff(crew, inputs, outcomes[1]),
           Kickoff(crew, inputs, outcomes[2])>>
    ELSE <<Kickoff(crew, inputs, outcomes[1])>>

\* crew_instance.kickoff(inputs=inputs): the engine runs once
EngineCalls(crew, inputs, outcomes) ==
    <<Kickoff(crew, inputs, outcomes[1])>>

PipeReturned(output) == [kind |-> "ok", output |-> output, error |-> "none"]

PipeRaised(e) == [kind |-> "raise", output |-> NoOutput, error |-> e]

\* what execute returns or raises after these engine invocations
ResultOf(calls) ==
    IF calls[Len(calls)].kind = "ok"
    THEN PipeReturned(calls[Len(calls)].output)
    ELSE PipeRaised("EngineFailure")

\* execute with a the outcome of self.create_crew()
execute_assembled(a, inputs, calls) ==
    /\ pipe' = [pipe EXCEPT !.executes = @ + 1, !.inputs = inputs,
                            !.assembled = a.ok]
    /\ ccache' = a.cache
    /\ kickoffs' = IF a.ok THEN calls ELSE <<>>
    /\ graphs' = graphs
    /\ pret' = IF a.ok THEN ResultOf(calls) ELSE PipeRaised(a.error)

execute_with(a, inputs, outcomes) ==
    execute_assembled(a, inputs, EngineCalls(a.crew, inputs, outcomes))

execute(inputs, outcomes) ==
    /\ pipe.pc = "ready"
    /\ pipe.executes < MaxExecutes
    /\ execute_with(Assemble(cfiles, ccache, pipe.cls, pipe.config),
                    inputs, outcomes)

\* create_crew with a what get_agents, get_tasks and Crew(...) did
create_crew_assembled(a) ==
    /\ graphs' = Append(graphs, [ok |-> a.ok, error |-> a.error,
                                 crew |-> a.crew])
    /\ ccache' = a.cache
    /\ UNCHANGED <<pipe, kickoffs, pret>>

BaseCrew_create_crew ==
    /\ pipe.pc = "ready"
    /\ Len(graphs) < MaxCreates
    /\ create_crew_assembled(Assemble(cfiles, ccache, pipe.cls, pipe.config))

PipeIdle ==
    /\ pipe = NewCrew("BaseCrew", DefaultConfig)
    /\ kickoffs = <<>>
    /\ pret = PipeReturned(NoOutput)
    /\ graphs = <<>>

\* the complete document of a configuration file
CompleteContents(name) ==
    LET v == IF name[1] \in {"agents", "tasks"} THEN "GamingCrew"
             ELSE "StandardCrew" IN
    IF name = AgentsFileOf(v)
    THEN FileOf([mapping |-> TRUE,
                 entries |-> EntriesFor(SeqOfSet(AgentNames(v)),
                                        Range(AgentFields))])
    ELSE FileOf([mapping |-> TRUE,
                 entries |-> EntriesFor(TaskNames(v), Range(TaskFields))])

\* a crew class is called with a configuration; the environment has the
\* API key or not; at most one configuration file is missing
PipeInit ==
    /\ FactoryInit
    /\ \E cls \in CrewClasses, config \in CrewConfigs :
          pipe = NewCrew(cls, config)
    /\ kickoffs = <<>>
    /\ pret = PipeReturned(NoOutput)
    /\ graphs = <<>>
    /\ \E broken \in SUBSET CrewFileNames :
          /\ Cardinality(broken) <= 1
          /\ cfiles = [n \in CrewFileNames |->
                         IF n \in broken THEN Missing
                         ELSE CompleteContents(n)]
    /\ ccache = <<>>
    /\ ccall = [op |-> "init", variant |-> "StandardCrew", name |-> "none"]
    /\ cret = CrewReturned(NoTasks)

StoreConfig ==
    /\ NextStep = "config"
    /\ pipe' = [AfterStep(pipe, "config", "none") EXCEPT !.has_config = TRUE]
    /\ UNCHANGED <<kickoffs, pret, graphs, ccache>>
    /\ UNCHANGED notPipe

ResolveBackend ==
    /\ NextStep = "llm"
    /\ pipe' = AfterStep(pipe, "llm", ResolveLLM(pipe.config))
    /\ UNCHANGED <<kickoffs, pret, graphs, ccache>>
    /\ UNCHANGED notPipe

ValidateConfig ==
    /\ NextStep = "validate_config"
    /\ pipe' = AfterStep(pipe, "validate_config",
                         ValidateConfigHook(pipe.cls, pipe.config))
    /\ UNCHANGED <<kickoffs, pret, graphs, ccache>>
    /\ UNCHANGED notPipe

InitializeCrew ==
    /\ NextStep = "initialize_crew"
    /\ pipe' = AfterStep(pipe, "initialize_crew", "none")
    /\ UNCHANGED <<kickoffs, pret, graphs, ccache>>
    /\ UNCHANGED notPipe

PipeCreateCrew ==
    /\ BaseCrew_create_crew
    /\ UNCHANGED notPipe

Execute ==
    /\ \E inputs \in Inputs, outcomes \in [1..2 -> EngineOutcomes] :
          execute(inputs, outcomes)
    /\ UNCHANGED notPipe

(***************************************************************************)
(* run of main.py, statement by statement.  The engine returns or raises;  *)
(* a file is written when its directory exists, and the directory of the   *)
(* run may be removed by another process while the run is under way.       *)
(***************************************************************************)
NewRun(provider, save_output, use_gaming_config) ==
    [pc |-> "start", provider |-> provider, save_output |-> save_output,
     use_gaming_config |-> use_gaming_config, results_dir |-> NoDir,
     failure |-> "none", written |-> {}, value |-> "none",
     error |-> "none"]

RunIdle == runner = NewRun("deepseek", TRUE, FALSE)

RunInit ==
    /\ SaverInit
    /\ FactoryInit
    /\ \E provider \in Providers, save_output \in BOOLEAN,
          use_gaming_config \in BOOLEAN :
          runner = NewRun(provider, save_output, use_gaming_config)

\* open(path, 'w') in the directory of the run, then the writes
WriteInto(r, ds, document) ==
    IF r.results_dir \in ds
    THEN [ok |-> TRUE, written |-> r.written \cup {document}]
    ELSE [ok |-> FALSE, written |-> r.written]

\* an exception in the try block of run enters its handler
Caught(r, failure) == [r EXCEPT !.pc = "handling", !.failure = failure]

\* an exception outside the try block, or in the handler, leaves run
Escapes(r, e) == [r EXCEPT !.pc = "raised", !.error = e]

\* results_dir = create_results_directory() if save_output
RunCreateDirectory ==
    LET c == CreateDirOutcome(dirs, clock) IN
    /\ runner.pc = "start"
    /\ IF ~runner.save_output
       THEN /\ runner' = [runner EXCEPT !.pc = "created"]
            /\ UNCHANGED dirs
       ELSE /\ dirs' = c.dirs
            /\ runner' = IF c.ok
                         THEN [runner EXCEPT !.pc = "created",
                                             !.results_dir = c.path]
                         ELSE Escapes(runner, "FileExistsError")
    /\ UNCHANGED notRun

\* crew_instance = MarketingPostsCrew(...), before the try block
RunConstruct ==
    LET llm == ResolveLLM(CrewConfig(runner.provider, "", "")) IN
    /\ runner.pc = "created"
    /\ runner' = IF llm = "none" THEN [runner EXCEPT !.pc = "constructed"]
                 ELSE Escapes(runner, llm)
    /\ UNCHANGED dirs
    /\ UNCHANGED notRun

\* results = crew_instance.crew().kickoff(inputs=inputs)
RunKickoff ==
    /\ runner.pc = "constructed"
    /\ \E outcome \in {"ok", "raise"} :
          runner' = IF outcome = "ok"
                    THEN [runner EXCEPT !.pc = "kicked", !.value = "results"]
                    ELSE Caught(runner, "engine")
    /\ UNCHANGED dirs
    /\ UNCHANGED notRun

\* if save_output: save_results_to_md(results, results_dir=results_dir)
RunSaveResults ==
    LET w == WriteInto(runner, dirs, "results") IN
    /\ runner.pc = "kicked"
    /\ runner' = IF ~runner.save_output
                 THEN [runner EXCEPT !.pc = "returned"]
                 ELSE IF w.ok
                 THEN [runner EXCEPT !.pc = "saved", !.written = w.written]
                 ELSE Caught(runner, "write_results")
    /\ UNCHANGED dirs
    /\ UNCHANGED notRun

\* save_additional_info(results_dir, ...); return results
RunSaveAdditionalInfo ==
    LET w == WriteInto(runner, dirs, "config_info") IN
    /\ runner.pc = "saved"
    /\ runner' = IF w.ok
                 THEN [runner EXCEPT !.pc = "returned", !.written = w.written]
                 ELSE Caught(runner, "write_config_info")
    /\ UNCHANGED dirs
    /\ UNCHANGED notRun

\* except Exception as e: if save_output: save_error_report(...); return None
RunHandleError ==
    LET w == WriteInto(runner, dirs, "error_report") IN
    /\ runner.pc = "handling"
    /\ runner' = IF ~runner.save_output
                 THEN [runner EXCEPT !.pc = "returned", !.value = "None"]
                 ELSE IF w.ok
                 THEN [runner EXCEPT !.pc = "returned", !.value = "None",
                                     !.written = w.written]
                 ELSE Escapes(runner, "FileNotFoundError")
    /\ UNCHANGED dirs
    /\ UNCHANGED notRun

\* the file system is shared: the directory of the run disappears
RemoveResultsDirectory ==
    /\ runner.pc \in {"created", "constructed", "kicked", "saved",
                      "handling"}
    /\ runner.results_dir \in dirs
    /\ dirs' = dirs \ {runner.results_dir}
    /\ UNCHANGED runner
    /\ UNCHANGED notRun

(***************************************************************************)
(* CrewBuilder.  CrewConfig objects live in a heap; the builder holds a    *)
(* reference to one of them, and build hands out a reference.              *)
(***************************************************************************)
\* the values the setters are called with
SetterValues ==
    [llm_provider |-> Providers,
     llm_model |-> {"None", "deepseek-chat"},
     agents_config |-> {"config/agents.yaml", "config/agents_gaming.yaml",
                        ""},
     tasks_config |-> {"config/tasks.yaml", "config/tasks_gaming.yaml", ""},
     verbose |-> BOOLEAN,
     memory |-> BOOLEAN]

\* CrewBuilder.__init__: self._config = CrewConfig()
NewBuilder ==
    [heap |-> <<DefaultConfig>>, ref |-> 1, built |-> <<>>, calls |-> 0]

\* the with_... methods: self._config.<field> = value; return self
with_field(b, field, value) == [b EXCEPT !.heap[b.ref][field] = value]

\* CrewBuilder.build: return self._config
build(b) ==
    [b EXCEPT !.built = Append(@, [ref |-> b.ref,
                                   snapshot |-> b.heap[b.ref]])]

create_standard_config == with_field(NewBuilder, "llm_provider", "deepseek")

create_gaming_config ==
    with_field(
       with_field(with_field(NewBuilder, "llm_provider", "deepseek"),
                  "agents_config", "config/agents_gaming.yaml"),
       "tasks_config", "config/tasks_gaming.yaml")

BuilderIdle == builder = NewBuilder

BuilderInit ==
    builder \in {NewBuilder, create_standard_config, create_gaming_config}

WithField ==
    /\ builder.calls < MaxBuilderCalls
    /\ \E field \in DOMAIN SetterValues :
          \E value \in SetterValues[field] :
             builder' = [with_field(builder, field, value)
                            EXCEPT !.calls = @ + 1]
    /\ UNCHANGED notBuilder

Build ==
    /\ builder.calls < MaxBuilderCalls
    /\ builder' = [build(builder) EXCEPT !.calls = @ + 1]
    /\ UNCHANGED notBuilder

(***************************************************************************)
(* Specifications.  Each one runs one component from its initial states    *)
(* and leaves the other components idle.                                   *)
(***************************************************************************)
StoreStart ==
    StoreInit /\ FactoryIdle /\ FormatIdle /\ SaverIdle /\ CrewIdle
    /\ PipeIdle /\ RunIdle /\ BuilderIdle

StoreNext == LoadConfig \/ ClearCache

SpecStore == StoreStart /\ [][StoreNext]_vars

FactoryStart ==
    FactoryInit /\ StoreIdle /\ FormatIdle /\ SaverIdle /\ CrewIdle
    /\ PipeIdle /\ RunIdle /\ BuilderIdle

FactoryNext == RegisterCrewType \/ CreateCrew \/ ValidateCrewConfig

SpecFactory == FactoryStart /\ [][FactoryNext]_vars

FormatStart ==
    FormatInit /\ StoreIdle /\ FactoryIdle /\ SaverIdle /\ CrewIdle
    /\ PipeIdle /\ RunIdle /\ BuilderIdle

FormatNext ==
    FormatTaskResult \/ CleanText \/ CleanObject \/ CleanTextAgain

SpecFormat == FormatStart /\ [][FormatNext]_vars

SaverStart ==
    SaverInit /\ StoreIdle /\ FactoryIdle /\ FormatIdle /\ CrewIdle
    /\ PipeIdle /\ RunIdle /\ BuilderIdle

SaverNext ==
    \/ Tick
    \/ CreateResultsDirectory
    \/ SaveMarketingResults
    \/ SaveResultsToMd
    \/ SaveConfigInfo
    \/ SaveErrorReport

SpecSaver == SaverStart /\ [][SaverNext]_vars

CrewStart ==
    CrewInit /\ StoreIdle /\ FactoryIdle /\ FormatIdle /\ SaverIdle
    /\ PipeIdle /\ RunIdle /\ BuilderIdle

CrewNext == GetTasks \/ CollectTasks \/ GetAgents \/ AgentAccessor

SpecCrew == CrewStart /\ [][CrewNext]_vars

PipeStart ==
    PipeInit /\ StoreIdle /\ FormatIdle /\ SaverIdle /\ RunIdle
    /\ BuilderIdle

PipeNext ==
    \/ StoreConfig
    \/ ResolveBackend
    \/ ValidateConfig
    \/ InitializeCrew
    \/ PipeCreateCrew
    \/ Execute

SpecPipe == PipeStart /\ [][PipeNext]_vars

RunStart ==
    RunInit /\ StoreIdle /\ FormatIdle /\ CrewIdle /\ PipeIdle
    /\ BuilderIdle

RunNext ==
    \/ RunCreateDirectory
    \/ RunConstruct
    \/ RunKickoff
    \/ RunSaveResults
    \/ RunSaveAdditionalInfo
    \/ RunHandleError
    \/ RemoveResultsDirectory

SpecRun == RunStart /\ [][RunNext]_vars

BuilderStart ==
    BuilderInit /\ StoreIdle /\ FactoryIdle /\ FormatIdle /\ SaverIdle
    /\ CrewIdle /\ PipeIdle /\ RunIdle

BuilderNext == WithField \/ Build

SpecBuilder == BuilderStart /\ [][BuilderNext]_vars

(***************************************************************************)
(* Claims about the configuration store.                                   *)
(***************************************************************************)
ValidAgentsDocument(d) ==
    /\ d.mapping
    /\ \A i \in 1..Len(d.entries) :
          /\ d.entries[i].isdict
          /\ Range(AgentFields) \subseteq d.entries[i].fields

LastLoadOf(p) ==
    call.op = "load_config" /\ call.type = p[1] /\ call.name = p[2]

\* C1: a valid agents document loads successfully, the document returned
\* is the cached one, and repeating the load neither opens the source nor
\* runs the validator again: one read and one validation per pair (and one
\* more only after each clear_cache).
C1_CachedReload ==
    \A p \in Pairs :
        (/\ p[1] = AgentsType
         /\ files[p[2]].state = "yaml"
         /\ ValidAgentsDocument(files[p[2]].doc))
        => /\ reads[p] <= 1 + clears
           /\ validated[p] <= 1 + clears
           /\ LastLoadOf(p) =>
                 /\ ret.kind = "ok"
                 /\ IsCached(p[1], p[2])
                 /\ ret.value = cache[CacheKey(p[1], p[2])]

C1_Witness ==
    \E p \in Pairs :
        /\ p[1] = AgentsType
        /\ files[p[2]].state = "yaml"
        /\ ValidAgentsDocument(files[p[2]].doc)
        /\ Len(files[p[2]].doc.entries) = 2
        /\ LastLoadOf(p)
        /\ loads[p] = 3 /\ reads[p] = 1 /\ validated[p] = 1 /\ clears = 0
        /\ ret = Returned(files[p[2]].doc)

LacksOne(e) ==
    e.isdict /\ Cardinality(Range(AgentFields) \ e.fields) = 1

MissingFieldOf(e) == CHOOSE f \in Range(AgentFields) : f \notin e.fields

\* C2: when an agents document has an entry lacking exactly one required
\* field, the error the caller of load_config receives is the validator's
\* ConfigValidationError, naming that entry and that field.
C2_ValidatorErrorReachesCaller ==
    \A p \in Pairs :
        LET d == files[p[2]].doc IN
        (/\ p[1] = AgentsType
         /\ LastLoadOf(p)
         /\ ret.kind = "raise"
         /\ files[p[2]].state = "yaml"
         /\ d.mapping
         /\ \A i \in 1..Len(d.entries) :
               d.entries[i].isdict
               /\ Cardinality(Range(AgentFields) \ d.entries[i].fields) <= 1
         /\ \E i \in 1..Len(d.entries) : LacksOne(d.entries[i]))
        => /\ ret.error.kind = "ConfigValidationError"
           /\ \E i \in 1..Len(d.entries) :
                 /\ LacksOne(d.entries[i])
                 /\ ret.error.field =
                       <<d.entries[i].name, MissingFieldOf(d.entries[i])>>

\* C9: a load_config call that raises leaves the cache exactly as it was,
\* without the key of the failed load, and (the source existing) has read
\* the source: failures are never cached, so every retry reads again.
C9_FailedLoadNotCached ==
    [][(call'.op = "load_config" /\ ret'.kind = "raise" /\ loads' # loads)
        => /\ cache' = cache
           /\ CacheKey(call'.type, call'.name) \notin DOMAIN cache'
           /\ files[call'.name].state # "missing"
                 => reads'[<<call'.type, call'.name>>]
                      = reads[<<call'.type, call'.name>>] + 1]_vars

C9_Witness ==
    \E p \in Pairs :
        /\ LastLoadOf(p)
        /\ ret.kind = "raise"
        /\ ret.error.kind = "ConfigValidationError"
        /\ loads[p] = 2 /\ reads[p] = 2 /\ clears = 0
        /\ DOMAIN cache # {}

\* C23: clear_cache empties the cache and leaves the sources alone; no
\* other operation drops or replaces a cached document; and a load of a key
\* the cache does not hold, the first load after clear_cache in particular,
\* reads the source again and, for a type with a validator, validates the
\* parsed document again.
C23_OnlyClearCacheDrops ==
    [][/\ (call'.op = "clear_cache" /\ clears' # clears)
            => /\ cache' = <<>>
               /\ files' = files
               /\ reads' = reads /\ validated' = validated
       /\ (clears' = clears)
            => \A k \in DOMAIN cache :
                  k \in DOMAIN cache' /\ cache'[k] = cache[k]
       /\ (/\ call'.op = "load_config" /\ loads' # loads
           /\ cache = <<>> /\ clears > 0
           /\ files[call'.name].state # "missing")
            => LET p == <<call'.type, call'.name>> IN
               /\ reads'[p] = reads[p] + 1
               /\ (files[call'.name].state = "yaml"
                      /\ HasValidator(call'.type))
                     => validated'[p] = validated[p] + 1]_vars

C23_Witness ==
    \E p \in Pairs :
        /\ LastLoadOf(p)
        /\ clears = 1
        /\ loads[p] = 2 /\ reads[p] = 2 /\ validated[p] = 2
        /\ ret.kind = "ok"
        /\ IsCached(p[1], p[2])

RequiredOf(config_type) ==
    IF config_type = AgentsType THEN AgentFields ELSE TaskFields

LabelOf(config_type) ==
    IF config_type = AgentsType
    THEN [label |-> "agent", file |-> "agents.yaml"]
    ELSE [label |-> "task", file |-> "tasks.yaml"]

Faulty(required, entry) ==
    ~entry.isdict \/ ~(Range(required) \subseteq entry.fields)

\* the earliest violation of a document in the order: document, then entry
\* by entry (the entry itself, then its fields in declared order); <<>> when
\* there is none
EarliestViolation(required, d) ==
    IF ~d.mapping THEN <<"not_dict">>
    ELSE IF \A i \in 1..Len(d.entries) : ~Faulty(required, d.entries[i])
    THEN <<>>
    ELSE LET i == CHOOSE k \in 1..Len(d.entries) :
                     /\ Faulty(required, d.entries[k])
                     /\ \A j \in 1..(k - 1) : ~Faulty(required, d.entries[j])
             en == d.entries[i] IN
         IF ~en.isdict THEN <<"entry_not_dict", en.name>>
         ELSE LET f == CHOOSE k \in 1..Len(required) :
                          /\ required[k] \notin en.fields
                          /\ \A j \in 1..(k - 1) : required[j] \in en.fields
              IN <<"missing_field", en.name, required[f]>>

\* C24: whenever a validator runs on a parsed document, the load succeeds
\* exactly when the document has no violation, and otherwise the one error
\* raised describes the earliest violation in the order document, entries
\* in insertion order, entry type, required fields in declared order.
C24_FirstViolationOnly ==
    [][\A p \in Pairs :
          validated'[p] = validated[p] + 1
          => LET v == EarliestViolation(RequiredOf(p[1]), files[p[2]].doc)
                 l == LabelOf(p[1]) IN
             IF v = <<>> THEN ret'.kind = "ok"
             ELSE /\ ret'.kind = "raise"
                  /\ ret'.error.message =
                        <<"load_error">> \o p[2] \o <<l.label>> \o v
                        \o <<l.file>> \o Tail(v)]_vars

C24_Witness ==
    \E p \in Pairs :
        LET d == files[p[2]].doc IN
        /\ LastLoadOf(p) /\ p[1] = AgentsType /\ validated[p] = 1
        /\ Len(d.entries) = 2
        /\ d.entries[1].isdict /\ d.entries[1].fields = {}
        /\ ~d.entries[2].isdict
        /\ ret.kind = "raise"
        /\ ret.error.message =
              <<"load_error">> \o p[2]
              \o <<"agent", "missing_field", d.entries[1].name, "role",
                   "agents.yaml", d.entries[1].name, "role">>

\* C25: a failing load_config of an uncached key raises one of three
\* distinguishable kinds of error: not-found for a source that does not
\* exist, a parse error (neither of the other two kinds) for a malformed
\* source, and for a document that fails validation a validation error
\* carrying the entry and the field; a validator runs only for a type that
\* has one registered.
C25_ThreeErrorKinds ==
    \A p \in Pairs :
        /\ validated[p] > 0 => HasValidator(p[1])
        /\ (LastLoadOf(p) /\ ret.kind = "raise")
             => LET c == files[p[2]]
                    v == EarliestViolation(RequiredOf(p[1]), c.doc) IN
                /\ c.state = "missing"
                     => ret.error.kind = "FileNotFoundError"
                /\ c.state = "malformed"
                     => ret.error.kind
                          \notin {"FileNotFoundError", "ConfigValidationError"}
                /\ c.state = "yaml"
                     => /\ ret.error.kind = "ConfigValidationError"
                        /\ ret.error.field = Tail(v)

\* C29: cache slots are per (type, name) pair: a load that is served from
\* the cache (it succeeds without reading) is a load of a pair that was read
\* before, and it returns the document of that pair's own source.
C29_SlotPerPair ==
    [][\A p \in Pairs :
          (/\ loads'[p] = loads[p] + 1
           /\ reads'[p] = reads[p]
           /\ ret'.kind = "ok")
          => /\ reads[p] > 0
             /\ ret'.value = files[p[2]].doc]_vars

(***************************************************************************)
(* Claims about the crew factory.                                          *)
(***************************************************************************)
\* the distinct types of a sequence of registrations, each at the place of
\* its first registration
RECURSIVE FirstRegistrations(_)
FirstRegistrations(log) ==
    IF log = <<>> THEN <<>>
    ELSE LET front == FirstRegistrations(SubSeq(log, 1, Len(log) - 1))
             t == log[Len(log)].type IN
         IF t \in Range(front) THEN front ELSE Append(front, t)

LastClassRegistered(log, t) ==
    log[CHOOSE i \in 1..Len(log) :
           /\ log[i].type = t
           /\ \A j \in (i + 1)..Len(log) : log[j].type # t].cls

\* C8: create_crew with an unregistered identifier raises the unknown-type
\* error whose available list is the registered identifiers, each once, in
\* the order of their (first) registration, and the registry still holds
\* exactly what the register_crew_type calls put there.
C8_UnknownTypeListsRegistered ==
    (/\ fcall.op = "create_crew"
     /\ \A i \in 1..Len(regLog) : regLog[i].type # fcall.type)
    => /\ fret.kind = "raise"
       /\ fret.error.kind = "ValueError"
       /\ fret.error.text = "unknown_crew_type"
       /\ fret.error.requested = fcall.type
       /\ fret.error.available = FirstRegistrations(regLog)
       /\ Keys(registry) = FirstRegistrations(regLog)
       /\ \A i \in 1..Len(registry) :
             registry[i].cls = LastClassRegistered(regLog, registry[i].type)

C8_Witness ==
    /\ fcall.op = "create_crew"
    /\ fcall.type = "custom"
    /\ Len(regLog) = 3
    /\ regLog[1].type = "gaming" /\ regLog[2].type = "standard"
    /\ regLog[3].type = "gaming" /\ regLog[3].cls # regLog[1].cls
    /\ fret.kind = "raise"
    /\ fret.error.available = <<"gaming", "standard">>

ConstructionSucceeds(cls, config) ==
    /\ Lower(config.llm_provider) = "deepseek"
    /\ env
    /\ \/ cls = "BaseCrew"
       \/ (config.agents_config # "" /\ config.tasks_config # "")

\* C10: validate_crew_config never raises; it returns true exactly when the
\* type is registered and constructing its class from the configuration
\* succeeds, and false otherwise.
C10_ValidateCollapsesErrors ==
    fcall.op = "validate_crew_config"
    => /\ fret.kind = "ok"
       /\ fret.bool =
            (/\ \E i \in 1..Len(regLog) : regLog[i].type = fcall.type
             /\ ConstructionSucceeds(LastClassRegistered(regLog, fcall.type),
                                     fcall.config))

C10_Witness ==
    /\ fcall.op = "validate_crew_config"
    /\ Registered(registry, fcall.type)
    /\ ClassOf(registry, fcall.type) = "GamingCrew"
    /\ fcall.config.llm_provider = "DeepSeek"
    /\ fcall.config.tasks_config = ""
    /\ env
    /\ fret = FactoryReturned(FALSE, NoCrew)

\* the error of the constructor of a class on a configuration
ConstructorFailure(cls, config) ==
    IF Lower(config.llm_provider) # "deepseek" THEN "unsupported_provider"
    ELSE IF ~env THEN "missing_api_key"
    ELSE "missing_config_paths"

\* C22: create_crew with a registered type calls the class registered last
\* for it once, with the configuration of the call, and returns the crew it
\* built; when that constructor fails, its own error reaches the caller; the
\* registry still holds what the register_crew_type calls put there.
C22_CreateUsesRegisteredClass ==
    LET cls == LastClassRegistered(regLog, fcall.type) IN
    (/\ fcall.op = "create_crew"
     /\ \E i \in 1..Len(regLog) : regLog[i].type = fcall.type)
    => /\ fcall.constructed = 1
       /\ ConstructionSucceeds(cls, fcall.config)
          => fret = FactoryReturned(TRUE, [cls |-> cls,
                                           config |-> fcall.config])
       /\ ~ConstructionSucceeds(cls, fcall.config)
          => /\ fret.kind = "raise"
             /\ fret.error.kind = "ValueError"
             /\ fret.error.text = ConstructorFailure(cls, fcall.config)
       /\ Keys(registry) = FirstRegistrations(regLog)
       /\ \A i \in 1..Len(registry) :
             registry[i].cls = LastClassRegistered(regLog, registry[i].type)

C22_Witness ==
    /\ fcall.op = "create_crew"
    /\ Len(regLog) = 2
    /\ regLog[1] = [type |-> "standard", cls |-> "StandardCrew"]
    /\ regLog[2] = [type |-> "standard", cls |-> "BaseCrew"]
    /\ fcall.type = "standard"
    /\ fcall.config.agents_config = ""
    /\ fret.kind = "ok"
    /\ fret.crew.cls = "BaseCrew"

(***************************************************************************)
(* Claims about the result formatter.                                      *)
(***************************************************************************)
Contains(text, pat) == Find(text, pat) >= 0

NoEscapeArtifacts(text) ==
    /\ ~Contains(text, <<BS, LetterN>>)
    /\ ~Contains(text, <<BS, DQ>>)
    /\ ~Contains(text, <<BS, SQ>>)

\* text of the shape ('raw', '<payload>') with a payload of at least one
\* character
IsTupleText(text) ==
    /\ StartsWith(text, TuplePrefix)
    /\ EndsWith(text, TupleSuffix)
    /\ Len(text) > Len(TuplePrefix) + Len(TupleSuffix)

PayloadOf(text) == SubSeq(text, Len(TuplePrefix) + 1, Len(text) - 2)

\* C4 as claimed: clean_text is idempotent on every text without escape
\* artifacts (no backslash-n, backslash-double-quote, backslash-quote).
C4_IdempotentWithoutArtifacts ==
    (stage = "recleaned" /\ NoEscapeArtifacts(formatted))
    => recleaned = cleaned

\* C4 as amended: clean_text is idempotent on every text that contains no
\* backslash and is not a ('raw', '...') text whose payload is again a
\* ('raw', '...') text.
C4_IdempotentOnPlainText ==
    (/\ stage = "recleaned"
     /\ ~Contains(formatted, <<BS>>)
     /\ ~(IsTupleText(formatted) /\ IsTupleText(PayloadOf(formatted))))
    => recleaned = cleaned

C4_Witness ==
    /\ stage = "recleaned"
    /\ mode = "tuple"
    /\ formatted = TuplePrefix \o <<Zhe, LF, RP>> \o TupleSuffix
    /\ cleaned = <<Zhe, LF, RP>>
    /\ recleaned = cleaned

\* C5: for a result exposing only raw, whose text is the stringified tuple
\* ('raw', '<payload>') with newlines written as backslash-n, the cleaned
\* text is exactly the payload with its newlines, without the wrapper.
C5_TupleResultUnwrapped ==
    (/\ stage \in {"cleaned", "recleaned"}
     /\ mode = "repr"
     /\ task_result.attrs = {"raw"}
     /\ ~Contains(body, <<BS>>))
    => cleaned = body

\* C14: format_task_result takes the first that applies of: raw when the
\* result has it and it is not empty, result when the result has it, output
\* when the result has it, the string conversion of the object; so an empty
\* raw with an output and no result gives the output.
C14_FormatPrecedence ==
    LET r == task_result IN
    stage \in {"formatted", "cleaned", "recleaned"}
    => /\ ("raw" \in r.attrs /\ Len(r.raw) > 0) => formatted = r.raw
       /\ (~("raw" \in r.attrs /\ Len(r.raw) > 0) /\ "result" \in r.attrs)
          => formatted = OtherText
       /\ (/\ ~("raw" \in r.attrs /\ Len(r.raw) > 0)
           /\ "result" \notin r.attrs
           /\ "output" \in r.attrs)
          => formatted = <<LetterZ>>
       /\ (~("raw" \in r.attrs /\ Len(r.raw) > 0)
           /\ r.attrs \cap {"result", "output"} = {})
          => formatted = <<LP, RP>>

C14_Witness ==
    /\ stage = "formatted"
    /\ task_result.attrs = {"raw", "output"}
    /\ task_result.raw = <<>>
    /\ formatted = task_result.output
    /\ formatted # <<>>

IsString(text) == \A i \in 1..Len(text) : text[i] \in 0..1114111

\* the payload of a ('raw', '...') text fails the secondary decoding pass
DecodingFails(payload) ==
    \/ \E i \in 1..Len(payload) : payload[i] > 255
    \/ ~DecodeFrom(payload, 0).ok

\* C15: clean_text returns a string for every input: a value that is not a
\* str comes back as its string conversion, and a ('raw', '...') text whose
\* payload cannot be encoded or decoded comes back as that payload, the
\* text obtained before the decoding pass.
C15_CleanTextTotal ==
    LET u == UnescapeArtifacts(formatted) IN
    /\ stage \in {"cleaned", "recleaned", "object"} => IsString(cleaned)
    /\ stage = "recleaned" => IsString(recleaned)
    /\ stage = "object" => cleaned = formatted
    /\ (/\ stage \in {"cleaned", "recleaned"}
        /\ IsTupleText(u)
        /\ DecodingFails(PayloadOf(u)))
       => cleaned = PayloadOf(u)

C15_Witness ==
    LET u == UnescapeArtifacts(formatted) IN
    /\ stage = "cleaned"
    /\ IsTupleText(u)
    /\ ~DecodeFrom(PayloadOf(u), 0).ok
    /\ cleaned = PayloadOf(u)
    /\ Len(cleaned) = 2

(***************************************************************************)
(* Claims about the result saver.                                          *)
(***************************************************************************)
LacksResultFields(r) == r.attrs \cap {"raw", "result", "output"} = {}

\* C6: saving an iterable of n results that all lack raw, result and output
\* writes exactly n task sections, in the order of the results, the k-th
\* one numbered k (from 1) and carrying the cleaned string conversion of the
\* k-th result.
C6_OneSectionPerResult ==
    (/\ scall.op = "save_marketing_results"
     /\ sret.result.success
     /\ scall.results.iterable
     /\ \A k \in 1..Len(scall.results.items) :
           LacksResultFields(scall.results.items[k]))
    => /\ lastWritten.path = sret.result.file_path
       /\ Len(lastWritten.doc.sections) = Len(scall.results.items)
       /\ \A k \in 1..Len(scall.results.items) :
             /\ lastWritten.doc.sections[k].kind = "task"
             /\ lastWritten.doc.sections[k].index = k
             /\ lastWritten.doc.sections[k].body =
                  clean_text(scall.results.items[k].str)

C6_Witness ==
    /\ scall.op = "save_marketing_results"
    /\ sret.result.success
    /\ scall.results.iterable
    /\ Len(scall.results.items) = 2
    /\ scall.results.items[1].str = <<Zhe, BS, DQ>>
    /\ scall.results.items[2].str =
         TuplePrefix \o <<LetterZ, BS, LetterN, LetterZ>> \o TupleSuffix
    /\ Len(lastWritten.doc.sections) = 2
    /\ lastWritten.doc.sections[1].index = 1
    /\ lastWritten.doc.sections[1].body = <<Zhe, DQ>>
    /\ lastWritten.doc.sections[2].index = 2
    /\ lastWritten.doc.sections[2].body = <<LetterZ, LF, LetterZ>>

\* C7: two runs of create_results_directory within the same second yield the
\* same path, neither fails, and after each the base directory and the
\* timestamped directory both exist.
C7_CreateTwiceSameSecond ==
    /\ (Len(created) = 2 /\ created[1].time = created[2].time)
          => /\ created[1].ok
             /\ created[2].ok
             /\ created[1].path = created[2].path
             /\ {BaseDir, created[2].path} \subseteq dirs
    /\ scall.op = "create_results_directory"
          => /\ sret.kind = "path"
             /\ {BaseDir, sret.path} \subseteq dirs

C7_Witness ==
    /\ scall.op = "create_results_directory"
    /\ Len(created) = 2
    /\ created[1].time = created[2].time
    /\ created[1].path = sret.path
    /\ sret.path = ResultsDir(2)
    /\ {BaseDir, ResultsDir(2)} \subseteq dirs

(***************************************************************************)
(* Claims about the crews.                                                 *)
(***************************************************************************)
IndexOf(tasks, name) ==
    IF \E k \in 1..Len(tasks) : tasks[k].name = name
    THEN CHOOSE k \in 1..Len(tasks) : tasks[k].name = name
    ELSE 0

\* C3: in every task sequence a crew hands over, each task named in the
\* context of a task occurs at a strictly smaller index of that sequence.
C3_ContextPrecedes ==
    cret.kind = "ok"
    => \A i \in 1..Len(cret.tasks) :
          \A j \in 1..Len(cret.tasks[i].context) :
             /\ IndexOf(cret.tasks, cret.tasks[i].context[j]) >= 1
             /\ IndexOf(cret.tasks, cret.tasks[i].context[j]) < i

C3_Witness ==
    /\ ccall.op = "tasks"
    /\ ccall.variant = "GamingMarketingPostsCrew"
    /\ cret.kind = "ok"
    /\ Len(cret.tasks) = 8
    /\ cret.tasks[8].context =
         <<"gaming_marketing_strategy_task",
           "gaming_legal_risk_assessment_task",
           "gaming_community_strategy_task">>
    /\ IndexOf(cret.tasks, "gaming_community_strategy_task") = 7

\* C13 as claimed: an agent accessor whose entry in the agents document is
\* a mapping lacking some of role, goal, backstory does not fail; it returns
\* an agent whose present fields come from the document and whose missing
\* fields take the fallback defaults.
C13_IncompleteAgentDegrades ==
    LET file == cfiles[AgentsFileOf(ccall.variant)] IN
    (/\ ccall.op = "agent"
     /\ file.state = "yaml"
     /\ file.doc.mapping
     /\ HasEntry(file.doc, ccall.name)
     /\ EntryOf(file.doc, ccall.name).isdict)
    => /\ cret.kind = "ok"
       /\ \A f \in Range(AgentFields) :
             cret.agents[1][f] =
                IF f \in EntryOf(file.doc, ccall.name).fields
                THEN "document" ELSE "default"

\* C19: StandardCrew.get_agents returns analyst, strategist, creator in that
\* order; StandardCrew.get_tasks returns the five tasks research, project
\* understanding, marketing strategy, campaign idea, copy creation in that
\* order, assigned to analyst, analyst, strategist, strategist, creator.
C19_StandardCatalog ==
    (ccall.variant = "StandardCrew" /\ cret.kind = "ok")
    => /\ ccall.op = "get_agents" =>
             [i \in 1..Len(cret.agents) |-> cret.agents[i].name] =
                <<"lead_market_analyst", "chief_marketing_strategist",
                  "creative_content_creator">>
       /\ ccall.op = "get_tasks" =>
             /\ [i \in 1..Len(cret.tasks) |-> cret.tasks[i].name] =
                   <<"research_task", "project_understanding_task",
                     "marketing_strategy_task", "campaign_idea_task",
                     "copy_creation_task">>
             /\ [i \in 1..Len(cret.tasks) |-> cret.tasks[i].agent] =
                   <<"lead_market_analyst", "lead_market_analyst",
                     "chief_marketing_strategist",
                     "chief_marketing_strategist",
                     "creative_content_creator">>

C19_Witness ==
    /\ ccall.op = "get_tasks"
    /\ ccall.variant = "StandardCrew"
    /\ cret.kind = "ok"
    /\ Len(cret.tasks) = 5
    /\ cret.tasks[2].agent = "lead_market_analyst"
    /\ cret.tasks[1].description = "document"

GamingTaskOrder ==
    <<"gaming_market_research_task", "gaming_audience_analysis_task",
      "gaming_legal_risk_assessment_task", "gaming_community_strategy_task",
      "gaming_marketing_strategy_task", "gaming_content_creation_task",
      "gaming_technical_positioning_task",
      "gaming_campaign_execution_task">>

\* C20 as claimed: GamingCrew.get_tasks returns the eight tasks in the
\* order market research, audience analysis, legal risk assessment,
\* community strategy, marketing strategy, content creation, technical
\* positioning, campaign execution, assigned to market analyst, market
\* analyst, legal specialist, community manager, strategist, content
\* creator, content creator, strategist; get_agents returns the six agents.
C20_GamingCatalogAsClaimed ==
    (ccall.variant = "GamingCrew" /\ cret.kind = "ok")
    => /\ ccall.op = "get_agents" =>
             {cret.agents[i].name : i \in 1..Len(cret.agents)} =
                Range(GamingAgents)
       /\ ccall.op = "get_tasks" =>
             /\ [i \in 1..Len(cret.tasks) |-> cret.tasks[i].name] =
                   GamingTaskOrder
             /\ [i \in 1..Len(cret.tasks) |-> cret.tasks[i].agent] =
                   <<"gaming_market_analyst", "gaming_market_analyst",
                     "legal_compliance_specialist", "community_manager",
                     "gaming_strategist", "content_creator_gaming",
                     "content_creator_gaming", "gaming_strategist">>

\* C20 as amended: the same order of the eight tasks, with technical
\* positioning assigned to the technical specialist; get_agents returns
\* the six declared agents, once each.
C20_GamingCatalog ==
    (ccall.variant = "GamingCrew" /\ cret.kind = "ok")
    => /\ ccall.op = "get_agents" =>
             /\ Len(cret.agents) = 6
             /\ {cret.agents[i].name : i \in 1..Len(cret.agents)} =
                   {"gaming_market_analyst", "gaming_strategist",
                    "content_creator_gaming", "community_manager",
                    "legal_compliance_specialist",
                    "technical_marketing_specialist"}
       /\ ccall.op = "get_tasks" =>
             /\ [i \in 1..Len(cret.tasks) |-> cret.tasks[i].name] =
                   GamingTaskOrder
             /\ [i \in 1..Len(cret.tasks) |-> cret.tasks[i].agent] =
                   <<"gaming_market_analyst", "gaming_market_analyst",
                     "legal_compliance_specialist", "community_manager",
                     "gaming_strategist", "content_creator_gaming",
                     "technical_marketing_specialist", "gaming_strategist">>

C20_Witness ==
    /\ ccall.op = "get_tasks"
    /\ ccall.variant = "GamingCrew"
    /\ cret.kind = "ok"
    /\ Len(cret.tasks) = 8
    /\ cret.tasks[7].name = "gaming_technical_positioning_task"
    /\ cret.tasks[7].agent = "technical_marketing_specialist"

SaveOps == {"save_marketing_results", "save_config_info", "save_error_report"}

\* C16: save_marketing_results, save_config_info and save_error_report
\* never raise: they return a SaveResult whose success is true exactly when
\* it carries no error message; a successful one names the file that was
\* written, and a failed one carries the message of the failure.
C16_SaveNeverRaises ==
    scall.op \in SaveOps
    => /\ sret.kind = "SaveResult"
       /\ sret.result.success <=> sret.result.error_message = "none"
       /\ sret.result.success
          => /\ sret.result.file_path = lastWritten.path
             /\ sret.result.file_path.dir \in dirs
       /\ ~sret.result.success
          => sret.result.error_message \in
                {"FileNotFoundError", "FileExistsError", "TypeError",
                 "AttributeError"}

C16_Witness ==
    /\ scall.op = "save_config_info"
    /\ scall.results_dir \in dirs
    /\ sret.kind = "SaveResult"
    /\ ~sret.result.success
    /\ sret.result.error_message = "AttributeError"
    /\ sret.result.file_path = lastWritten.path

\* the dependencies the catalog declares for a task
CatalogDependencies(name) ==
    IF name = "copy_creation_task"
    THEN {"marketing_strategy_task", "campaign_idea_task"}
    ELSE IF name = "gaming_technical_positioning_task"
    THEN {"gaming_marketing_strategy_task", "gaming_content_creation_task"}
    ELSE IF name = "gaming_campaign_execution_task"
    THEN {"gaming_marketing_strategy_task",
          "gaming_legal_risk_assessment_task",
          "gaming_community_strategy_task"}
    ELSE {}

\* C21 as claimed: the tasks get_tasks of StandardCrew and GamingCrew hands
\* over declare exactly the dependencies of the catalog: copy creation on
\* marketing strategy and campaign idea, technical positioning on marketing
\* strategy and content creation, campaign execution on marketing strategy,
\* legal risk assessment and community strategy, every other task on none.
C21_DeclaredDependencies ==
    (ccall.op = "get_tasks" /\ cret.kind = "ok")
    => \A i \in 1..Len(cret.tasks) :
          Range(cret.tasks[i].context) =
             CatalogDependencies(cret.tasks[i].name)

(***************************************************************************)
(* Claims about BaseCrew.                                                  *)
(***************************************************************************)
IsPrefix(s, t) == Len(s) <= Len(t) /\ \A i \in 1..Len(s) : s[i] = t[i]

\* C11: construction runs store configuration, resolve backend client,
\* validate_config hook, initialize hook in that order; a step that fails
\* is the last step that runs: an unsupported provider or a missing API key
\* fails before the validate_config hook, and a failing validate_config
\* hook keeps the initialize hook from running.
C11_ConstructionOrder ==
    /\ IsPrefix(pipe.steps,
                <<"config", "llm", "validate_config", "initialize_crew">>)
    /\ pipe.error \in {"unsupported_provider", "missing_api_key"}
       => /\ pipe.steps = <<"config", "llm">>
          /\ pipe.pc = "failed"
    /\ pipe.error = "missing_config_paths"
       => /\ pipe.steps = <<"config", "llm", "validate_config">>
          /\ pipe.pc = "failed"
    /\ pipe.pc = "ready" <=> Len(pipe.steps) = 4
    /\ pipe.pc \in {"ready", "failed"}
       => pipe.steps = Construct(pipe.cls, pipe.config).steps

C11_Witness ==
    /\ pipe.pc = "failed"
    /\ pipe.error = "missing_config_paths"
    /\ pipe.steps = <<"config", "llm", "validate_config">>

\* C12: an execute whose crew could be assembled invokes the engine exactly
\* once, with the inputs of the call; it returns the engine's ordered output
\* unchanged, and when the engine fails the failure reaches the caller and
\* the engine is not invoked again.  An execute whose assembly fails raises
\* without invoking the engine.
C12_ExecuteOnce ==
    pipe.executes > 0
    => /\ pipe.assembled
          => /\ Len(kickoffs) = 1
             /\ kickoffs[1].inputs = pipe.inputs
             /\ kickoffs[1].kind = "ok"
                => /\ pret = PipeReturned(kickoffs[1].output)
                   /\ Len(pret.output) \in {5, 8}
                   /\ \A i \in 1..Len(pret.output) :
                         pret.output[i].inputs = pipe.inputs
             /\ kickoffs[1].kind = "raise"
                => pret = PipeRaised("EngineFailure")
       /\ ~pipe.assembled
          => /\ kickoffs = <<>>
             /\ pret.kind = "raise"
             /\ pret.error # "EngineFailure"

C12_Witness ==
    /\ pipe.executes = 2
    /\ pipe.assembled
    /\ Len(kickoffs) = 1
    /\ kickoffs[1].kind = "raise"
    /\ pret = PipeRaised("EngineFailure")

\* C30 as claimed: what save_results_to_md of main.py writes for a results
\* value is what ResultSaver writes for it: the same sections with the same
\* index, agent name, task name and cleaned body.
C30_WritersAgree ==
    (/\ scall.op = "save_results_to_md"
     /\ sret.kind = "file_path")
    => /\ lastWritten.path = sret.result.file_path
       /\ lastWritten.doc = DocumentOf(scall.results)

(***************************************************************************)
(* Claims about run.                                                       *)
(***************************************************************************)
\* C17 as claimed: a run that saves its output and meets an engine error or
\* an I/O error while writing the results document ends by returning to its
\* caller, with an error report written into the directory of the run.
C17_FailuresBecomeReports ==
    (/\ runner.save_output
     /\ runner.failure \in {"engine", "write_results"}
     /\ runner.pc \in {"returned", "raised"})
    => /\ runner.pc = "returned"
       /\ "error_report" \in runner.written

RunSucceeded == runner.pc = "returned" /\ runner.value = "results"

RunEnded == runner.pc \in {"returned", "raised"}

\* C27 as claimed: a run that saves its output has created its directory
\* before the pipeline is constructed and executed; when it has ended, the
\* directory holds the results document and the configuration snapshot if
\* the run succeeded, and holds an error report exactly if the run failed.
C27_RunDirectoryContents ==
    runner.save_output
    => /\ runner.pc \in {"constructed", "kicked", "saved", "handling"}
          => runner.results_dir # NoDir
       /\ RunEnded
          => /\ RunSucceeded
                => {"results", "config_info"} \subseteq runner.written
             /\ "error_report" \in runner.written <=> ~RunSucceeded

(***************************************************************************)
(* Claims about CrewBuilder.                                               *)
(***************************************************************************)
\* C18 as claimed: a configuration returned by build never changes: every
\* configuration handed out still has the field values it had when build
\* returned it, whatever was called on the builder afterwards.
C18_BuiltConfigImmutable ==
    \A i \in 1..Len(builder.built) :
       builder.heap[builder.built[i].ref] = builder.built[i].snapshot

(***************************************************************************)
(* Claims about create_crew and the documents a crew reads.                *)
(***************************************************************************)
NamesOf(s) == [i \in 1..Len(s) |-> s[i].name]

\* what a create_crew call does, apart from the cache of the crew's
\* ConfigManager
CreateCrewEffect ==
    graphs' # graphs
    => LET g == graphs'[Len(graphs')] IN
       /\ pipe' = pipe
       /\ cfiles' = cfiles
       /\ \A k \in DOMAIN ccache :
             k \in DOMAIN ccache' /\ ccache'[k] = ccache[k]
       /\ g.ok => /\ g.crew.process = "sequential"
                  /\ g.crew.verbose = pipe.config.verbose
                  /\ NamesOf(g.crew.agents) = DeclaredAgents(pipe.cls)
                  /\ NamesOf(g.crew.tasks) = TaskNames(pipe.cls)
       /\ \A i \in 1..Len(graphs) : graphs[i] = g

\* C26 as amended: every create_crew call leaves the crew object's fields
\* and the documents unchanged and only adds to the cache of the object's
\* ConfigManager; a graph it returns is tagged sequential with the
\* configured verbosity and has the variant's roster and task order; and all
\* calls on one object, in any order with execute, give the same result.
C26_CreateCrewRepeatable == [][CreateCrewEffect]_vars

\* C26 as claimed: create_crew moreover leaves all state of the object
\* unchanged, the cache of its ConfigManager included.
C26_CreateCrewStateless ==
    [][CreateCrewEffect /\ (graphs' # graphs => ccache' = ccache)]_vars

C26_Witness ==
    /\ Len(graphs) = 2
    /\ graphs[1].ok /\ graphs[2].ok
    /\ pipe.cls = "GamingCrew"
    /\ pipe.executes = 1
    /\ Len(graphs[2].crew.tasks) = 8

\* the file that a document reference of a configuration names
DocumentNamed(ref) ==
    CASE ref = "config/agents.yaml" -> <<"agents.yaml">>
      [] ref = "config/tasks.yaml" -> <<"tasks.yaml">>
      [] ref = "config/agents_gaming.yaml" -> <<"agents", "gaming.yaml">>
      [] ref = "config/tasks_gaming.yaml" -> <<"tasks", "gaming.yaml">>

\* C28: a crew object reads its agent and task records from the documents
\* that its configuration names: once create_crew has returned a graph, the
\* documents loaded are those of config.agents_config and
\* config.tasks_config.
C28_ReadsConfiguredDocuments ==
    (graphs # <<>> /\ graphs[Len(graphs)].ok)
    => /\ CacheKey(AgentsType, DocumentNamed(pipe.config.agents_config))
             \in DOMAIN ccache
       /\ CacheKey(TasksType, DocumentNamed(pipe.config.tasks_config))
             \in DOMAIN ccache

====
